---- MODULE Spec2Model ----
(***************************************************************************)
(* QuizPoker: the hint pipeline (scripts/polish_questions_web.py), the     *)
(* answer fetcher (scripts/fetch_answers.py), the card logic of the web    *)
(* app written by scripts/build_web_app.py and the pagination of           *)
(* scripts/generate_cards_png.py.                                          *)
(*                                                                         *)
(* Text is modelled as a sequence of atoms.  An atom is either a single    *)
(* character (a digit, a separator, a bracket, a blank, the letter "m")    *)
(* or a whole word or phrase of letters that stands for its own text       *)
(* ("knapp unter", "Eiffelturm").  Umlauts are written in ASCII in atom    *)
(* names ("ungefaehr" stands for the 8 characters of "ungefähr"); CharLen  *)
(* gives the number of characters the atom has in the program's text.      *)
(* Numbers are exact decimals <<mantissa, scale>> = mantissa / 10^scale;   *)
(* the program's float division is modelled as exact rational comparison.  *)
(***************************************************************************)
EXTENDS Integers, Sequences, FiniteSets, TLC

(* ------------------------------ bounds --------------------------------- *)
\* longest hint (in atoms) enumerated for the validator
MaxHintLen == 4
\* rows of the input table
NumRows == 3
\* largest --concurrency and --batch-size tried
MaxConcurrency == 2
MaxBatchSize == 2
\* runs of the program, and seconds of wall-clock time they fall in
MaxRuns == 2
MaxTime == 2
\* presses on the buttons of the web app
MaxPresses == 3
\* rows of the input of the card generator
MaxCards == 11

(* --------------------------- program constants ------------------------- *)
\* for attempt in range(3)
MaxAttempts == 3
\* len(tipp) < 10
MinHintLen == 10

(* ------------------------------- atoms --------------------------------- *)
Digit == {"0", "1", "2", "3", "4", "5", "6", "7", "8", "9"}

DigitVal(c) ==
  CASE c = "0" -> 0 [] c = "1" -> 1 [] c = "2" -> 2 [] c = "3" -> 3
    [] c = "4" -> 4 [] c = "5" -> 5 [] c = "6" -> 6 [] c = "7" -> 7
    [] c = "8" -> 8 [] c = "9" -> 9

\* the characters [.,] of the number pattern
Separator == {",", "."}

\* \s
Whitespace == {" "}

\* atoms made of letters (and inner blanks): first and last character are \w
WordAtom ==
  {"m", "unit", "Unit", "einheit", "Einheit", "liegt zwischen", "between",
   "and", "vierstellig", "tiefste", "tiefsten", "der Welt", "quelle ist",
   "laut Messung", "wird in Metern angegeben", "knapp unter", "KNAPP UNTER",
   "nur knapp", "fast genau", "ungefaehr", "Eiffelturm", "Stufen",
   "Merdeka", "hoch"}

\* len() of the atom's text
CharLen(a) ==
  CASE a \in {"unit", "Unit"} -> 4
    [] a \in {"einheit", "Einheit", "between", "tiefste", "Merdeka"} -> 7
    [] a = "hoch" -> 4
    [] a = "liegt zwischen" -> 14
    [] a = "and" -> 3
    [] a \in {"vierstellig", "knapp unter", "KNAPP UNTER"} -> 11
    [] a \in {"tiefsten", "der Welt", "ungefaehr"} -> 8
    [] a \in {"quelle ist", "Eiffelturm"} -> 10
    [] a = "laut Messung" -> 12
    [] a = "wird in Metern angegeben" -> 24
    [] a \in {"nur knapp", "fast genau"} -> IF a = "nur knapp" THEN 9 ELSE 10
    [] a = "Stufen" -> 6
    [] OTHER -> 1

RECURSIVE TextLen(_)
TextLen(t) == IF t = <<>> THEN 0 ELSE CharLen(Head(t)) + TextLen(Tail(t))

\* (?i): the atom's text in lower case
Lower(a) ==
  CASE a = "Unit" -> "unit"
    [] a = "Einheit" -> "einheit"
    [] a = "der Welt" -> "der welt"
    [] a = "laut Messung" -> "laut messung"
    [] a = "wird in Metern angegeben" -> "wird in metern angegeben"
    [] a = "KNAPP UNTER" -> "knapp unter"
    [] a = "Eiffelturm" -> "eiffelturm"
    [] a = "Stufen" -> "stufen"
    [] a = "Merdeka" -> "merdeka"
    [] OTHER -> a

\* \w: the first and the last character of the atom are word characters
IsWord(a) == a \in Digit \cup WordAtom

\* \b between position i and i+1 of t (i = 0: before the text, i = Len: after)
WordBoundary(t, i) ==
  LET left == i >= 1 /\ IsWord(t[i])
      right == i + 1 <= Len(t) /\ IsWord(t[i + 1])
  IN left # right

\* index of the last atom of the run of S-atoms that starts at i (i - 1: none)
RECURSIVE RunEnd(_, _, _)
RunEnd(t, i, S) ==
  IF i <= Len(t) /\ t[i] \in S THEN RunEnd(t, i + 1, S) ELSE i - 1

(* --------------------------- BAD_PATTERNS ------------------------------ *)
\* the 13 entries of the table, by position
BAD_PATTERNS == 1..13

\* atoms whose lower-cased text contains the literal phrase of entry p
PhraseAtoms(p) ==
  CASE p = 3 -> {"liegt zwischen"}
    [] p = 5 -> {"vierstellig"}
    [] p = 7 -> {"quelle ist"}
    [] p = 8 -> {"laut messung"}
    [] p = 9 -> {"wird in metern angegeben"}
    [] p = 10 -> {"knapp unter"}
    [] p = 11 -> {"nur knapp"}
    [] p = 12 -> {"fast genau"}
    [] OTHER -> {}

\* \b<word>[:\s] at atom i
LabelAt(t, i, word) ==
  /\ Lower(t[i]) = word
  /\ WordBoundary(t, i - 1)
  /\ i + 1 <= Len(t)
  /\ t[i + 1] \in {":"} \cup Whitespace

\* between \d+ and \d+ starting at atom i
BetweenAt(t, i) ==
  /\ Lower(t[i]) = "between"
  /\ i + 2 <= Len(t)
  /\ t[i + 1] = " "
  /\ t[i + 2] \in Digit
  /\ LET j == RunEnd(t, i + 2, Digit)
     IN /\ j + 4 <= Len(t)
        /\ t[j + 1] = " "
        /\ Lower(t[j + 2]) = "and"
        /\ t[j + 3] = " "
        /\ t[j + 4] \in Digit

\* \b(hoechste|groesste|laengste|tiefste)[rns]?\b.{0,20}\b(der|die|das) welt,
\* the superlative at atom i and "der welt" at atom j
SuperlativeAt(t, i, j) ==
  /\ Lower(t[i]) \in {"tiefste", "tiefsten"}
  /\ WordBoundary(t, i - 1)
  /\ WordBoundary(t, i)
  /\ i < j
  /\ TextLen(SubSeq(t, i + 1, j - 1)) <= 20
  /\ WordBoundary(t, j - 1)
  /\ Lower(t[j]) = "der welt"

\* re.search(BAD_PATTERNS[p], hint)
re_search(p, t) ==
  CASE p = 1 -> \E i \in 1..Len(t) : LabelAt(t, i, "unit")
    [] p = 2 -> \E i \in 1..Len(t) : LabelAt(t, i, "einheit")
    [] p = 4 -> \E i \in 1..Len(t) : BetweenAt(t, i)
    [] p = 6 -> \E i \in 1..Len(t) : \E j \in 1..Len(t) : SuperlativeAt(t, i, j)
    [] p = 13 -> \E i \in 1..Len(t) :
                   /\ Lower(t[i]) = "ungefaehr"
                   /\ i + 2 <= Len(t)
                   /\ t[i + 1] = " "
                   /\ t[i + 2] \in Digit
    [] OTHER -> \E i \in 1..Len(t) : Lower(t[i]) \in PhraseAtoms(p)

\* the loop of hint_is_bad over the table
MatchesBadPattern(t) == \E p \in BAD_PATTERNS : re_search(p, t)

(* ------------------------------ numbers -------------------------------- *)
RECURSIVE Pow10(_)
Pow10(k) == IF k = 0 THEN 1 ELSE 10 * Pow10(k - 1)

\* the integer a run of digit atoms spells
RECURSIVE DigitsVal(_)
DigitsVal(ds) ==
  IF ds = <<>> THEN 0
  ELSE 10 * DigitsVal(SubSeq(ds, 1, Len(ds) - 1)) + DigitVal(ds[Len(ds)])

\* float("<int>.<frac>") as <<mantissa, scale>>
Decimal(int, frac) == <<DigitsVal(int \o frac), Len(frac)>>

IsZero(n) == n[1] = 0

\* 0.75 <= num / ans_val <= 1.25, for ans_val > 0, in exact arithmetic (the
\* program divides floats: at the two ends of the window a quotient of
\* decimals such as 0.3 / 0.4 may round to the other side)
RatioInWindow(num, ans) ==
  LET n == num[1] * Pow10(ans[2])
      a == ans[1] * Pow10(num[2])
  IN 3 * a <= 4 * n /\ 4 * n <= 5 * a

\* re.findall(r'\b\d+(?:[.,]\d+)?\b', text) from atom i on, each match
\* converted by float(m.replace(',', '.'))
RECURSIVE FindNumbers(_, _)
FindNumbers(t, i) ==
  IF i > Len(t) THEN <<>>
  ELSE IF ~(t[i] \in Digit /\ WordBoundary(t, i - 1)) THEN FindNumbers(t, i + 1)
  ELSE
    LET j == RunEnd(t, i, Digit)
        hasFrac == j + 2 <= Len(t) /\ t[j + 1] \in Separator /\ t[j + 2] \in Digit
        k == IF hasFrac THEN RunEnd(t, j + 2, Digit) ELSE j
    IN IF hasFrac /\ WordBoundary(t, k)
       THEN <<Decimal(SubSeq(t, i, j), SubSeq(t, j + 2, k))>> \o FindNumbers(t, k + 1)
       ELSE IF WordBoundary(t, j)
       THEN <<Decimal(SubSeq(t, i, j), <<>>)>> \o FindNumbers(t, j + 1)
       ELSE FindNumbers(t, i + 1)

extract_numbers(text) == FindNumbers(text, 1)

(* --------------------------- answer parsing ---------------------------- *)
\* answer.split()[0]: the first run of non-blank atoms
FirstToken(answer) ==
  LET s == CHOOSE i \in 1..Len(answer) :
             /\ answer[i] \notin Whitespace
             /\ \A k \in 1..(i - 1) : answer[k] \in Whitespace
      e == CHOOSE i \in s..Len(answer) :
             /\ \A k \in s..i : answer[k] \notin Whitespace
             /\ (i = Len(answer) \/ answer[i + 1] \in Whitespace)
  IN SubSeq(answer, s, e)

\* re.sub(r'[^\d.,]', '', token).replace(',', '.')
RECURSIVE CleanNumber(_)
CleanNumber(t) ==
  IF t = <<>> THEN <<>>
  ELSE (IF Head(t) \in Digit THEN <<Head(t)>>
        ELSE IF Head(t) \in Separator THEN <<".">>
        ELSE <<>>) \o CleanNumber(Tail(t))

\* answer.split()[0] raises IndexError: a non-empty answer of blanks only
SplitRaises(answer) ==
  answer # <<>> /\ \A i \in 1..Len(answer) : answer[i] \in Whitespace

\* float(ans_clean) raises ValueError: more than one point, or no digit
FloatRaises(c) ==
  \/ Cardinality({i \in 1..Len(c) : c[i] = "."}) > 1
  \/ \A i \in 1..Len(c) : c[i] = "."

\* ans_clean of hint_is_too_close (defined when split does not raise)
AnsClean(answer) ==
  CleanNumber(IF answer = <<>> THEN <<"0">> ELSE FirstToken(answer))

\* float(ans_clean) if ans_clean else 0 (defined when float does not raise)
AnsVal(answer) ==
  LET c == AnsClean(answer)
      dots == {i \in 1..Len(c) : c[i] = "."}
  IN IF c = <<>> THEN <<0, 0>>
     ELSE IF dots = {} THEN Decimal(c, <<>>)
     ELSE LET d == CHOOSE i \in dots : TRUE
          IN Decimal(SubSeq(c, 1, d - 1), SubSeq(c, d + 1, Len(c)))

(* ------------------------------ validator ------------------------------ *)
\* hint_is_too_close leaves with an uncaught IndexError
hint_is_too_close_raises(hint, answer) == SplitRaises(answer)

\* its return value, when it returns
hint_is_too_close(hint, answer) ==
  IF hint_is_too_close_raises(hint, answer) THEN FALSE
  ELSE IF AnsClean(answer) # <<>> /\ FloatRaises(AnsClean(answer)) THEN FALSE
  ELSE IF IsZero(AnsVal(answer)) THEN FALSE
  ELSE LET nums == extract_numbers(hint)
       IN \E i \in 1..Len(nums) :
            ~IsZero(nums[i]) /\ RatioInWindow(nums[i], AnsVal(answer))

\* hint_is_bad leaves with the IndexError of hint_is_too_close
hint_is_bad_raises(hint, answer) ==
  /\ ~MatchesBadPattern(hint)
  /\ answer # <<>>
  /\ hint_is_too_close_raises(hint, answer)

\* hint_is_bad with an early "not bad" for an empty answer, before the patterns
hint_is_bad_empty_answer_first(hint, answer) ==
  IF answer = <<>> THEN FALSE
  ELSE MatchesBadPattern(hint) \/ hint_is_too_close(hint, answer)

\* its return value, when it returns
hint_is_bad(hint, answer) ==
  IF MatchesBadPattern(hint) THEN TRUE
  ELSE IF answer # <<>> /\ hint_is_too_close(hint, answer) THEN TRUE
  ELSE FALSE

(* ------------------- clean-up of the extracted hints ------------------- *)
\* .replace(",", ";")
RECURSIVE ReplaceCommas(_)
ReplaceCommas(t) ==
  IF t = <<>> THEN <<>>
  ELSE <<IF Head(t) = "," THEN ";" ELSE Head(t)>> \o ReplaceCommas(Tail(t))

\* .strip()
RECURSIVE Strip(_)
Strip(t) ==
  IF t = <<>> THEN <<>>
  ELSE IF Head(t) \in Whitespace THEN Strip(Tail(t))
  ELSE IF t[Len(t)] \in Whitespace THEN Strip(SubSeq(t, 1, Len(t) - 1))
  ELSE t

\* index of the first atom c at or after i, 0 when there is none
RECURSIVE FirstAt(_, _, _)
FirstAt(t, i, c) ==
  IF i > Len(t) THEN 0 ELSE IF t[i] = c THEN i ELSE FirstAt(t, i + 1, c)

\* \[[^\]]*\]\([^\)]*\) matched with its "[" at atom b: index of the closing
\* ")" of the match, 0 when it does not match
LinkEnd(t, b) ==
  IF b > Len(t) \/ t[b] # "[" THEN 0
  ELSE LET q == FirstAt(t, b + 1, "]")
       IN IF q = 0 \/ q + 1 > Len(t) \/ t[q + 1] # "(" THEN 0
          ELSE FirstAt(t, q + 2, ")")

\* \([^\)]*\[[^\]]*\]\([^\)]*\)[^\)]*\) matched with its "(" at atom p: index
\* of the last ")" of the match, 0 when it does not match
SourceEnd(t, p) ==
  IF p > Len(t) \/ t[p] # "(" THEN 0
  ELSE LET c == FirstAt(t, p + 1, ")")
           stop == IF c = 0 THEN Len(t) ELSE c - 1
           ends == {b \in (p + 1)..stop :
                      LinkEnd(t, b) # 0 /\ FirstAt(t, LinkEnd(t, b) + 1, ")") # 0}
       IN IF ends = {} THEN 0
          ELSE LET b == CHOOSE x \in ends : \A y \in ends : y <= x
               IN FirstAt(t, LinkEnd(t, b) + 1, ")")

\* re.sub(r'\s*\([^\)]*\[[^\]]*\]\([^\)]*\)[^\)]*\)', '', t), from atom i on
RECURSIVE RemoveSources(_, _)
RemoveSources(t, i) ==
  IF i > Len(t) THEN <<>>
  ELSE LET e == SourceEnd(t, RunEnd(t, i, Whitespace) + 1)
       IN IF e # 0 THEN RemoveSources(t, e + 1)
          ELSE <<t[i]>> \o RemoveSources(t, i + 1)

\* re.sub(r'\s*\[[^\]]*\]\([^\)]*\)', '', t), from atom i on
RECURSIVE RemoveLinks(_, _)
RemoveLinks(t, i) ==
  IF i > Len(t) THEN <<>>
  ELSE LET e == LinkEnd(t, RunEnd(t, i, Whitespace) + 1)
       IN IF e # 0 THEN RemoveLinks(t, e + 1)
          ELSE <<t[i]>> \o RemoveLinks(t, i + 1)

\* the clean-up without .replace(",", ";")
CleanHint_keeps_commas(raw) ==
  Strip(RemoveLinks(Strip(RemoveSources(Strip(raw), 1)), 1))

\* tipp = data.get(key, "").replace(",", ";").strip(), then the two re.sub
\* calls, each followed by .strip()
CleanHint(raw) ==
  Strip(RemoveLinks(Strip(RemoveSources(Strip(ReplaceCommas(raw)), 1)), 1))

(* ------------------------------- state --------------------------------- *)
VARIABLES
  vHint, vAnswer, vResult,  \* validator harness: one (hint, answer) and its verdict
  files,            \* the file system: path -> rows stored
  now,              \* latest wall-clock second observed
  runs,             \* runs of main() started so far
  pc,               \* where main() is
  args,             \* parsed command line
  all_rows,         \* list of row objects (references into heap)
  heap,             \* row objects: reference -> dict
  target_rows,      \* rows selected by --start/--end (references)
  batch_idx, processed_count,
  backup_path,
  sem,              \* asyncio.Semaphore value of the running batch
  tasks,            \* process_one coroutines of the running batch
  read_rows,        \* history: rows as read from the input by this run
  issued,           \* history: this run has sent a request
  saved,            \* history: batch saves completed by this run
  out_writes,       \* history: writes to args.output by this run
  returned,         \* history: row reference -> pair generate_hints returned
  writes,           \* history: path -> number of times it was written
  program,          \* the script the current process runs
  environ,          \* os.environ of the current process (the two names read)
  dotenv,           \* the file .env next to scripts/
  API_KEY,          \* module global of polish_questions_web
  view,             \* web app: the view displayed ("closed" before the page loads)
  card_id,          \* web app: id of the question loaded last (0: none)
  classList,        \* web app: card -> classes of its element
  timer,            \* web app: the global "timer" (0: null, else a timeout id)
  timeouts,         \* web app: timeouts set and not yet due, oldest first
  down,             \* web app: the presses held at the moment
  presses,          \* web app history: press -> button and how it ended
  reveals,          \* web app history: cards a timeout has revealed
  card_pc,          \* card generator: where main() is
  card_args,        \* card generator: parsed command line
  cards,            \* card generator: the cards selected
  page_start,       \* card generator: loop variable i of main
  generated_pages   \* card generator: pages rendered, each the cards in its rows

vars == <<vHint, vAnswer, vResult, files, now, runs, pc, args, all_rows, heap,
          target_rows, batch_idx, processed_count, backup_path, sem, tasks,
          read_rows, issued, saved, out_writes, returned, writes,
          program, environ, dotenv, API_KEY,
          view, card_id, classList, timer, timeouts, down, presses, reveals,
          card_pc, card_args, cards, page_start, generated_pages>>

validatorVars == <<vHint, vAnswer, vResult>>
startupVars == <<program, environ, dotenv, API_KEY>>
webVars == <<view, card_id, classList, timer, timeouts, down, presses, reveals>>
cardVars == <<card_pc, card_args, cards, page_start, generated_pages>>
assetVars == <<webVars, cardVars>>
runVars == <<files, now, runs, pc, args, all_rows, heap, target_rows, batch_idx,
             processed_count, backup_path, sem, tasks, read_rows, issued, saved,
             out_writes, returned, writes>>

(* ------------------------------ the input ------------------------------ *)
InputPath == "questions.csv"
OtherPath == "out.csv"

\* Path(args.input).parent / f"questions.backup-{timestamp}.csv"
BackupPath(t) == "questions.backup-" \o ToString(t) \o ".csv"

PriorHint == <<"Stufen">>
EmptyPair == [tipp1 |-> <<>>, tipp2 |-> <<>>]

\* row i of the input table in variant v: unique ids; some rows without
\* question, some without answer, some with hints from an earlier run
InputRow(i, v) ==
  [id |-> i,
   frage |-> IF (i + v) % 4 = 0 THEN "" ELSE "Wie hoch?",
   loesung |-> IF (i + v) % 3 = 0 THEN <<>> ELSE <<"1", "0", "0", " ", "m">>,
   tipp1 |-> IF (i + v) % 2 = 0 THEN PriorHint ELSE <<>>,
   tipp2 |-> IF (i + v) % 2 = 0 THEN PriorHint ELSE <<>>]

InputTable(v) == [i \in 1..NumRows |-> InputRow(i, v)]

\* the row {id 7, "Wie hoch ist der Burj Khalifa?", 828}, read without hints
BurjKhalifa ==
  [id |-> 7, frage |-> "Wie hoch ist der Burj Khalifa?",
   loesung |-> <<"8", "2", "8">>, tipp1 |-> <<>>, tipp2 |-> <<>>]

(* --------------------------- reasoning service ------------------------- *)
Good == <<"Eiffelturm", " ", "3", "0">>
GoodDecorated == <<"Eiffelturm", ",", " ", "3", "0", " ", "[", "m", "]", "(", "m", ")">>
Close == <<"Eiffelturm", " ", "9", "0">>
Attached == <<"Eiffelturm", " ", "9", "0", "m">>
Phrased == <<"knapp unter", " ", "3", "0">>
Short == <<"3", "0", " ", "m">>

NoReply == [kind |-> "none", tipp1 |-> <<>>, tipp2 |-> <<>>]

\* what one call of client.responses.create can come to: it raises, its text
\* holds no JSON object, the text matched does not parse, or a JSON object
\* with the two hints
Failure(k) == [kind |-> k, tipp1 |-> <<>>, tipp2 |-> <<>>]
Json(t1, t2) == [kind |-> "json", tipp1 |-> t1, tipp2 |-> t2]

ServiceReplies ==
  {Failure("error"), Failure("no_json"), Failure("invalid_json"),
   Json(Good, GoodDecorated), Json(Good, Close), Json(Phrased, Good),
   Json(Good, Short), Json(Attached, Good)}

\* hints of the service: the Merdeka 118 with its 679 m, written as in the
\* prompt's example ("679m hoch") or with a blank; the Eiffelturm with its
\* 330 m; a number far off
Merdeka679m == <<"Merdeka", " ", "6", "7", "9", "m", " ", "hoch">>
Merdeka679 == <<"Merdeka", " ", "6", "7", "9", " ", "m", " ", "hoch">>
Eiffelturm330 == <<"Eiffelturm", " ", "3", "3", "0", " ", "m">>
Stufen2909 == <<"Stufen", " ", "2", "9", "0", "9">>

\* the service in the scenario: the first reply for the row has a hint with
\* 679 and one with 330; a later reply has the hint with 330 and a far one,
\* or the request fails
ScenarioReplies(row, attempt) ==
  IF row.id = 7 /\ attempt = 0
  THEN {Json(Merdeka679m, Eiffelturm330), Json(Merdeka679, Eiffelturm330)}
  ELSE {Json(Eiffelturm330, Stufen2909), Failure("error")}

(* ---------------------------- generate_hints --------------------------- *)
\* the pair one attempt extracts from a reply with a JSON object
Extracted(reply) ==
  [tipp1 |-> CleanHint(reply.tipp1), tipp2 |-> CleanHint(reply.tipp2)]

\* hint_is_bad(tipp1, answer) or hint_is_bad(tipp2, answer): true, or left by
\* the IndexError (caught by the attempt's except); either way no return
QualityCheckFails(pair, answer) ==
  \/ hint_is_bad_raises(pair.tipp1, answer)
  \/ hint_is_bad(pair.tipp1, answer)
  \/ hint_is_bad_raises(pair.tipp2, answer)
  \/ hint_is_bad(pair.tipp2, answer)

\* the attempt with the quality check and the length check on tipp1 alone
AttemptReturns_first_hint_only(reply, answer) ==
  /\ reply.kind = "json"
  /\ ~hint_is_bad_raises(Extracted(reply).tipp1, answer)
  /\ ~hint_is_bad(Extracted(reply).tipp1, answer)
  /\ ~(TextLen(Extracted(reply).tipp1) < MinHintLen)

\* the attempt without the test "len(tipp1) < 10 or len(tipp2) < 10"
AttemptReturns_no_length_check(reply, answer) ==
  /\ reply.kind = "json"
  /\ ~QualityCheckFails(Extracted(reply), answer)

\* the attempt reaches "return {tipp1, tipp2}"
AttemptReturns(reply, answer) ==
  /\ reply.kind = "json"
  /\ ~QualityCheckFails(Extracted(reply), answer)
  /\ ~(TextLen(Extracted(reply).tipp1) < MinHintLen
       \/ TextLen(Extracted(reply).tipp2) < MinHintLen)

\* the replies and the answers of all specifications, and what one attempt
\* makes of each of them: the attempt's outcome and the pair it extracts,
\* tabulated
Replies ==
  ServiceReplies \cup ScenarioReplies(BurjKhalifa, 0)
    \cup ScenarioReplies(BurjKhalifa, 1)

Answers ==
  {InputRow(i, v).loesung : i \in 1..NumRows, v \in 0..1}
    \cup {BurjKhalifa.loesung}

Attempt ==
  [reply \in Replies |->
     [answer \in Answers |-> AttemptReturns(reply, answer)]]

Pair == [reply \in Replies |-> Extracted(reply)]

(* ------------------------------ save_csv ------------------------------- *)
\* the rows DictWriter writes: the current fields of every listed object
RowsOf(rowList, objects) == [i \in 1..Len(rowList) |-> objects[rowList[i]]]

\* open(path, "w") and write all rows: the file is replaced
save_csv(fs, rowList, objects, path) ==
  [q \in DOMAIN fs \cup {path} |->
     IF q = path THEN RowsOf(rowList, objects) ELSE fs[q]]

CountWrite(w, path) ==
  [q \in DOMAIN w \cup {path} |->
     IF q = path THEN (IF q \in DOMAIN w THEN w[q] ELSE 0) + 1 ELSE w[q]]

(* -------------------------------- main --------------------------------- *)
\* an option that was not given (argparse default None); a given integer n is
\* <<n>>
None == <<>>

NoArgs == [input |-> InputPath, output |-> InputPath, start |-> 1, end |-> None,
           concurrency |-> 0, batch_size |-> 1]

\* end_id = args.end or 999999
EndId(a) == IF a.end = None \/ a.end[1] = 0 THEN 999999 ELSE a.end[1]

\* (len(target_rows) + batch_size - 1) // batch_size
TotalBatches == (Len(target_rows) + args.batch_size - 1) \div args.batch_size

\* target_rows[batch_start:batch_end] of batch b (0-based)
BatchOf(b) ==
  LET batch_start == b * args.batch_size
      batch_end == IF batch_start + args.batch_size < Len(target_rows)
                   THEN batch_start + args.batch_size ELSE Len(target_rows)
  IN SubSeq(target_rows, batch_start + 1, batch_end)

\* the rows of rowList that satisfy the filter, in order
RECURSIVE Filter(_, _, _)
Filter(rowList, objects, a) ==
  IF rowList = <<>> THEN <<>>
  ELSE (IF a.start <= objects[Head(rowList)].id
           /\ objects[Head(rowList)].id <= EndId(a)
        THEN <<Head(rowList)>> ELSE <<>>) \o Filter(Tail(rowList), objects, a)

\* argparse, then "Read CSV": all_rows = list(reader)
StartRun(out, conc, size, first, last) ==
  /\ pc \in {"idle", "done", "crashed"}
  /\ runs' = runs + 1
  /\ args' = [input |-> InputPath, output |-> out, start |-> first,
              end |-> last,
              concurrency |-> conc, batch_size |-> size]
  /\ all_rows' = [i \in 1..Len(files[InputPath]) |-> i]
  /\ heap' = files[InputPath]
  /\ read_rows' = files[InputPath]
  /\ target_rows' = <<>>
  /\ batch_idx' = 0
  /\ processed_count' = 0
  /\ backup_path' = ""
  /\ sem' = 0
  /\ tasks' = <<>>
  /\ issued' = FALSE
  /\ saved' = 0
  /\ out_writes' = 0
  /\ returned' = [r \in {} |-> EmptyPair]
  /\ pc' = "backup"
  /\ UNCHANGED <<files, now, writes>>
  /\ UNCHANGED validatorVars
  /\ UNCHANGED assetVars
  /\ UNCHANGED startupVars

\* WriteBackup without the save_csv call
WriteBackup_no_copy(t) ==
  /\ pc = "backup"
  /\ t >= now
  /\ now' = t
  /\ backup_path' = BackupPath(t)
  /\ target_rows' = Filter(all_rows, heap, args)
  /\ pc' = "loop"
  /\ UNCHANGED <<files, writes, runs, args, all_rows, heap, batch_idx,
                 processed_count, sem, tasks, read_rows, issued, saved,
                 out_writes, returned>>
  /\ UNCHANGED validatorVars
  /\ UNCHANGED assetVars
  /\ UNCHANGED startupVars

\* "Create backup" with the clock reading t, then "Filter rows to process"
WriteBackup(t) ==
  /\ pc = "backup"
  /\ t >= now
  /\ now' = t
  /\ backup_path' = BackupPath(t)
  /\ files' = save_csv(files, all_rows, heap, BackupPath(t))
  /\ writes' = CountWrite(writes, BackupPath(t))
  /\ target_rows' = Filter(all_rows, heap, args)
  /\ pc' = "loop"
  /\ UNCHANGED <<runs, args, all_rows, heap, batch_idx, processed_count, sem,
                 tasks, read_rows, issued, saved, out_writes, returned>>
  /\ UNCHANGED validatorVars
  /\ UNCHANGED assetVars
  /\ UNCHANGED startupVars

\* top of the batch loop: asyncio.run(process_batch(batch, ...)) creates the
\* semaphore and one process_one task per row of the batch
StartBatch ==
  /\ pc = "loop"
  /\ batch_idx < TotalBatches
  /\ sem' = args.concurrency
  /\ tasks' = [k \in 1..Len(BatchOf(batch_idx)) |->
                 [row |-> BatchOf(batch_idx)[k], pc |-> "new", attempt |-> 0,
                  reply |-> NoReply,
                  result |-> EmptyPair]]
  /\ pc' = "gather"
  /\ UNCHANGED <<files, now, runs, args, all_rows, heap, target_rows, batch_idx,
                 processed_count, backup_path, read_rows, issued, saved,
                 out_writes, returned, writes>>
  /\ UNCHANGED validatorVars
  /\ UNCHANGED assetVars
  /\ UNCHANGED startupVars

\* TaskStart without "async with semaphore": the request is sent at once
TaskStart_no_semaphore(k) ==
  /\ pc = "gather"
  /\ k \in 1..Len(tasks)
  /\ tasks[k].pc = "new"
  /\ IF heap[tasks[k].row].frage = ""
     THEN /\ tasks' = [tasks EXCEPT ![k].pc = "done"]
          /\ UNCHANGED <<sem, issued>>
     ELSE /\ sem' = sem - 1
          /\ tasks' = [tasks EXCEPT ![k].pc = "request"]
          /\ issued' = TRUE
  /\ UNCHANGED <<files, now, runs, pc, args, all_rows, heap, target_rows,
                 batch_idx, processed_count, backup_path, read_rows, saved,
                 out_writes, returned, writes>>
  /\ UNCHANGED validatorVars
  /\ UNCHANGED assetVars
  /\ UNCHANGED startupVars

\* TaskStart without the "if not q: return row" test
TaskStart_no_question_test(k) ==
  /\ pc = "gather"
  /\ k \in 1..Len(tasks)
  /\ tasks[k].pc = "new"
  /\ IF sem > 0
     THEN /\ sem' = sem - 1
          /\ tasks' = [tasks EXCEPT ![k].pc = "request"]
          /\ issued' = TRUE
     ELSE /\ tasks' = [tasks EXCEPT ![k].pc = "waiting"]
          /\ UNCHANGED <<sem, issued>>
  /\ UNCHANGED <<files, now, runs, pc, args, all_rows, heap, target_rows,
                 batch_idx, processed_count, backup_path, read_rows, saved,
                 out_writes, returned, writes>>
  /\ UNCHANGED validatorVars
  /\ UNCHANGED assetVars
  /\ UNCHANGED startupVars

\* process_one up to its first suspension: a row without question returns at
\* once; otherwise generate_hints enters the semaphore and sends attempt 0,
\* or waits for a slot
TaskStart(k) ==
  /\ pc = "gather"
  /\ k \in 1..Len(tasks)
  /\ tasks[k].pc = "new"
  /\ IF heap[tasks[k].row].frage = ""
     THEN /\ tasks' = [tasks EXCEPT ![k].pc = "done"]
          /\ UNCHANGED <<sem, issued>>
     ELSE IF sem > 0
     THEN /\ sem' = sem - 1
          /\ tasks' = [tasks EXCEPT ![k].pc = "request"]
          /\ issued' = TRUE
     ELSE /\ tasks' = [tasks EXCEPT ![k].pc = "waiting"]
          /\ UNCHANGED <<sem, issued>>
  /\ UNCHANGED <<files, now, runs, pc, args, all_rows, heap, target_rows,
                 batch_idx, processed_count, backup_path, read_rows, saved,
                 out_writes, returned, writes>>
  /\ UNCHANGED validatorVars
  /\ UNCHANGED assetVars
  /\ UNCHANGED startupVars

\* a waiter of the semaphore gets a free slot and sends attempt 0 (any
\* waiter: the order in which asyncio wakes them is left open)
Acquire(k) ==
  /\ pc = "gather"
  /\ k \in 1..Len(tasks)
  /\ tasks[k].pc = "waiting"
  /\ sem > 0
  /\ sem' = sem - 1
  /\ tasks' = [tasks EXCEPT ![k].pc = "request"]
  /\ issued' = TRUE
  /\ UNCHANGED <<files, now, runs, pc, args, all_rows, heap, target_rows,
                 batch_idx, processed_count, backup_path, read_rows, saved,
                 out_writes, returned, writes>>
  /\ UNCHANGED validatorVars
  /\ UNCHANGED assetVars
  /\ UNCHANGED startupVars

\* process_one storing the hints into every row object instead of its own
StoreHints_every_row(objects, r, result) ==
  [o \in DOMAIN objects |->
     [objects[o] EXCEPT
        !.tipp1 = IF result.tipp1 # <<>> THEN result.tipp1 ELSE @,
        !.tipp2 = IF result.tipp2 # <<>> THEN result.tipp2 ELSE @]]

\* process_one assigning both fields without the "if result[...]" tests
StoreHints_unconditional(objects, r, result) ==
  [objects EXCEPT ![r].tipp1 = result.tipp1, ![r].tipp2 = result.tipp2]

\* process_one storing the first hint into the answer field as well
StoreHints_overwrites_answer(objects, r, result) ==
  [objects EXCEPT
     ![r].tipp1 = IF result.tipp1 # <<>> THEN result.tipp1 ELSE @,
     ![r].tipp2 = IF result.tipp2 # <<>> THEN result.tipp2 ELSE @,
     ![r].loesung = IF result.tipp1 # <<>> THEN result.tipp1 ELSE @]

\* process_one after generate_hints returned result for its row
StoreHints(objects, r, result) ==
  [objects EXCEPT
     ![r].tipp1 = IF result.tipp1 # <<>> THEN result.tipp1 ELSE @,
     ![r].tipp2 = IF result.tipp2 # <<>> THEN result.tipp2 ELSE @]

\* generate_hints returns result: the semaphore is released and process_one
\* runs to its end
TaskReturn(k, reply, result) ==
  /\ sem' = sem + 1
  /\ tasks' = [tasks EXCEPT ![k].pc = "done", ![k].reply = reply,
                            ![k].result = result]
  /\ heap' = StoreHints(heap, tasks[k].row, result)
  /\ returned' = [r \in DOMAIN returned \cup {tasks[k].row} |->
                    IF r = tasks[k].row THEN result ELSE returned[r]]
  /\ UNCHANGED issued

\* what a task keeps of a reply whose attempt did not return: how it ended
\* (the service raised, no JSON object, no valid JSON, a pair that failed)
Rejected(reply) == Failure(reply.kind)

\* Respond with the try around the whole loop: the first exception of the
\* service ends the call with the empty pair
Respond_error_aborts(k, reply) ==
  /\ pc = "gather"
  /\ k \in 1..Len(tasks)
  /\ tasks[k].pc = "request"
  /\ IF AttemptReturns(reply, heap[tasks[k].row].loesung)
     THEN TaskReturn(k, reply, Extracted(reply))
     ELSE IF tasks[k].attempt + 1 < MaxAttempts /\ reply.kind # "error"
     THEN /\ tasks' = [tasks EXCEPT ![k].attempt = @ + 1,
                                    ![k].reply = Rejected(reply)]
          /\ issued' = TRUE
          /\ UNCHANGED <<sem, heap, returned>>
     ELSE TaskReturn(k, Rejected(reply), EmptyPair)
  /\ UNCHANGED <<files, now, runs, pc, args, all_rows, target_rows, batch_idx,
                 processed_count, backup_path, read_rows, saved, out_writes,
                 writes>>
  /\ UNCHANGED validatorVars
  /\ UNCHANGED assetVars
  /\ UNCHANGED startupVars

\* Respond with a reply without usable JSON asked again at no cost: the
\* attempt is not counted
Respond_unparsable_free(k, reply) ==
  /\ pc = "gather"
  /\ k \in 1..Len(tasks)
  /\ tasks[k].pc = "request"
  /\ IF AttemptReturns(reply, heap[tasks[k].row].loesung)
     THEN TaskReturn(k, reply, Extracted(reply))
     ELSE IF reply.kind \in {"no_json", "invalid_json"}
     THEN /\ tasks' = [tasks EXCEPT ![k].reply = Rejected(reply)]
          /\ issued' = TRUE
          /\ UNCHANGED <<sem, heap, returned>>
     ELSE IF tasks[k].attempt + 1 < MaxAttempts
     THEN /\ tasks' = [tasks EXCEPT ![k].attempt = @ + 1,
                                    ![k].reply = Rejected(reply)]
          /\ issued' = TRUE
          /\ UNCHANGED <<sem, heap, returned>>
     ELSE TaskReturn(k, Rejected(reply), EmptyPair)
  /\ UNCHANGED <<files, now, runs, pc, args, all_rows, target_rows, batch_idx,
                 processed_count, backup_path, read_rows, saved, out_writes,
                 writes>>
  /\ UNCHANGED validatorVars
  /\ UNCHANGED assetVars
  /\ UNCHANGED startupVars

\* the request in flight of task k ends with reply: the attempt returns the
\* pair, or the loop goes on to the next attempt, or the attempts are used up
Respond(k, reply) ==
  /\ pc = "gather"
  /\ k \in 1..Len(tasks)
  /\ tasks[k].pc = "request"
  /\ IF Attempt[reply][heap[tasks[k].row].loesung]
     THEN TaskReturn(k, reply, Pair[reply])
     ELSE IF tasks[k].attempt + 1 < MaxAttempts
     THEN /\ tasks' = [tasks EXCEPT ![k].attempt = @ + 1,
                                    ![k].reply = Rejected(reply)]
          /\ issued' = TRUE
          /\ UNCHANGED <<sem, heap, returned>>
     ELSE TaskReturn(k, Rejected(reply), EmptyPair)
  /\ UNCHANGED <<files, now, runs, pc, args, all_rows, target_rows, batch_idx,
                 processed_count, backup_path, read_rows, saved, out_writes,
                 writes>>
  /\ UNCHANGED validatorVars
  /\ UNCHANGED assetVars
  /\ UNCHANGED startupVars

\* the merge by position instead of by id: the rows of the batch replace the
\* first rows of the list
Merge_by_position(rowList, objects, updated) ==
  [i \in 1..Len(rowList) |->
     IF i <= Len(updated) THEN updated[i] ELSE rowList[i]]

\* "Update all_rows with processed batch": id_to_updated = {r.get("id"): r ...}
\* (a later row of the batch with the same id wins), then the replacement loop
Merge(rowList, objects, updated) ==
  [i \in 1..Len(rowList) |->
     LET same == {k \in 1..Len(updated) :
                    objects[updated[k]].id = objects[rowList[i]].id}
     IN IF same = {} THEN rowList[i]
        ELSE updated[CHOOSE k \in same : \A j \in same : j <= k]]

\* progress_bar(current, total): the counts of "{current}/{total}" in the
\* line printed after a batch
progress_bar(current, total) == [current |-> current, total |-> total]

\* FinishBatch counting the batch size instead of len(batch)
FinishBatch_counts_batch_size ==
  /\ pc = "gather"
  /\ \A k \in 1..Len(tasks) : tasks[k].pc = "done"
  /\ LET updated_batch == [k \in 1..Len(tasks) |-> tasks[k].row]
         merged == Merge(all_rows, heap, updated_batch)
     IN /\ all_rows' = merged
        /\ files' = save_csv(files, merged, heap, args.output)
  /\ writes' = CountWrite(writes, args.output)
  /\ out_writes' = out_writes + 1
  /\ saved' = saved + 1
  /\ processed_count' = processed_count + args.batch_size
  /\ batch_idx' = batch_idx + 1
  /\ tasks' = <<>>
  /\ pc' = "loop"
  /\ UNCHANGED <<now, runs, args, heap, target_rows, backup_path, sem,
                 read_rows, issued, returned>>
  /\ UNCHANGED validatorVars
  /\ UNCHANGED assetVars
  /\ UNCHANGED startupVars

\* FinishBatch writing the rows of the batch instead of all_rows
FinishBatch_saves_batch_only ==
  /\ pc = "gather"
  /\ \A k \in 1..Len(tasks) : tasks[k].pc = "done"
  /\ LET updated_batch == [k \in 1..Len(tasks) |-> tasks[k].row]
     IN /\ all_rows' = Merge(all_rows, heap, updated_batch)
        /\ files' = save_csv(files, updated_batch, heap, args.output)
  /\ writes' = CountWrite(writes, args.output)
  /\ out_writes' = out_writes + 1
  /\ saved' = saved + 1
  /\ processed_count' = processed_count + Len(tasks)
  /\ batch_idx' = batch_idx + 1
  /\ tasks' = <<>>
  /\ pc' = "loop"
  /\ UNCHANGED <<now, runs, args, heap, target_rows, backup_path, sem,
                 read_rows, issued, returned>>
  /\ UNCHANGED validatorVars
  /\ UNCHANGED assetVars
  /\ UNCHANGED startupVars

\* FinishBatch going on as soon as one task of the batch is done
FinishBatch_first_completed ==
  /\ pc = "gather"
  /\ \E k \in 1..Len(tasks) : tasks[k].pc = "done"
  /\ LET updated_batch == [k \in 1..Len(tasks) |-> tasks[k].row]
         merged == Merge(all_rows, heap, updated_batch)
     IN /\ all_rows' = merged
        /\ files' = save_csv(files, merged, heap, args.output)
  /\ writes' = CountWrite(writes, args.output)
  /\ out_writes' = out_writes + 1
  /\ saved' = saved + 1
  /\ processed_count' = processed_count + Len(tasks)
  /\ batch_idx' = batch_idx + 1
  /\ tasks' = <<>>
  /\ pc' = "loop"
  /\ UNCHANGED <<now, runs, args, heap, target_rows, backup_path, sem,
                 read_rows, issued, returned>>
  /\ UNCHANGED validatorVars
  /\ UNCHANGED assetVars
  /\ UNCHANGED startupVars

\* gather has every result: merge, "Save after each batch", count
FinishBatch ==
  /\ pc = "gather"
  /\ \A k \in 1..Len(tasks) : tasks[k].pc = "done"
  /\ LET updated_batch == [k \in 1..Len(tasks) |-> tasks[k].row]
         merged == Merge(all_rows, heap, updated_batch)
     IN /\ all_rows' = merged
        /\ files' = save_csv(files, merged, heap, args.output)
  /\ writes' = CountWrite(writes, args.output)
  /\ out_writes' = out_writes + 1
  /\ saved' = saved + 1
  /\ processed_count' = processed_count + Len(tasks)
  /\ batch_idx' = batch_idx + 1
  /\ tasks' = <<>>
  /\ pc' = "loop"
  /\ UNCHANGED <<now, runs, args, heap, target_rows, backup_path, sem,
                 read_rows, issued, returned>>
  /\ UNCHANGED validatorVars
  /\ UNCHANGED assetVars
  /\ UNCHANGED startupVars

\* the loop is over: "DONE!"
FinishRun ==
  /\ pc = "loop"
  /\ batch_idx >= TotalBatches
  /\ pc' = "done"
  /\ UNCHANGED <<files, now, runs, args, all_rows, heap, target_rows, batch_idx,
                 processed_count, backup_path, sem, tasks, read_rows, issued,
                 saved, out_writes, returned, writes>>
  /\ UNCHANGED validatorVars
  /\ UNCHANGED assetVars
  /\ UNCHANGED startupVars

\* the process dies (killed, power loss): the files stay, the objects in
\* memory are gone (args, target_rows and the history variables are kept to
\* say what the dead run had done)
Crash ==
  /\ pc \in {"backup", "loop", "gather"}
  /\ pc' = "crashed"
  /\ all_rows' = <<>>
  /\ heap' = <<>>
  /\ batch_idx' = 0
  /\ processed_count' = 0
  /\ sem' = 0
  /\ tasks' = <<>>
  /\ UNCHANGED <<files, now, runs, args, target_rows, backup_path, read_rows,
                 issued, saved, out_writes, returned, writes>>
  /\ UNCHANGED validatorVars
  /\ UNCHANGED assetVars
  /\ UNCHANGED startupVars

(* ------------------------- start of a process -------------------------- *)
\* the names under which the scripts look for the credential
CredentialNames == {"OPENAI_API_KEY", "OPENAI"}

\* os.environ.get(name) of a name that is not set is None
Unset == "unset"
EnvValues == {Unset, "", "sk"}

\* the environment a process is started with
Environments == [CredentialNames -> EnvValues]
NoEnvironment == [n \in CredentialNames |-> Unset]

\* the file .env: absent, or with a line NAME=value for some of the names
DotenvFiles ==
  {[exists |-> FALSE, lines |-> NoEnvironment]}
    \cup {[exists |-> TRUE, lines |-> l] : l \in Environments}

\* "Load .env if present": os.environ.setdefault for every line
load_dotenv(env, file) ==
  IF ~file.exists THEN env
  ELSE [n \in CredentialNames |->
          IF env[n] = Unset THEN file.lines[n] ELSE env[n]]

\* bool(value) is false for None and for ""
Falsy(value) == value \in {Unset, ""}

\* os.environ.get("OPENAI_API_KEY") or os.environ.get("OPENAI")
get_api_key(e) ==
  IF ~Falsy(e["OPENAI_API_KEY"]) THEN e["OPENAI_API_KEY"] ELSE e["OPENAI"]

\* a process starts with nothing in memory and nothing done
FreshProcess ==
  /\ all_rows' = <<>>
  /\ heap' = <<>>
  /\ target_rows' = <<>>
  /\ batch_idx' = 0
  /\ processed_count' = 0
  /\ backup_path' = ""
  /\ sem' = 0
  /\ tasks' = <<>>
  /\ read_rows' = <<>>
  /\ issued' = FALSE
  /\ saved' = 0
  /\ out_writes' = 0
  /\ returned' = [r \in {} |-> EmptyPair]

\* LoadCredential without the test of API_KEY
LoadCredential_no_check(env) ==
  /\ pc \in {"start", "done", "crashed", "exited"}
  /\ program' = "polish_questions_web"
  /\ environ' = load_dotenv(env, dotenv)
  /\ API_KEY' = get_api_key(load_dotenv(env, dotenv))
  /\ pc' = "idle"
  /\ args' = NoArgs
  /\ FreshProcess
  /\ UNCHANGED <<files, now, runs, writes, dotenv>>
  /\ UNCHANGED validatorVars
  /\ UNCHANGED assetVars

\* python scripts/polish_questions_web.py in the environment env: the module
\* level code loads .env, resolves API_KEY and leaves with sys.exit when
\* there is none; otherwise main() is about to be called
LoadCredential(env) ==
  /\ pc \in {"start", "done", "crashed", "exited"}
  /\ program' = "polish_questions_web"
  /\ environ' = load_dotenv(env, dotenv)
  /\ API_KEY' = get_api_key(load_dotenv(env, dotenv))
  /\ pc' = IF Falsy(get_api_key(load_dotenv(env, dotenv))) THEN "exited"
           ELSE "idle"
  /\ args' = NoArgs
  /\ FreshProcess
  /\ UNCHANGED <<files, now, runs, writes, dotenv>>
  /\ UNCHANGED validatorVars
  /\ UNCHANGED assetVars

\* CONCURRENCY of fetch_answers
FetchConcurrency == 25

\* what one call of client.chat.completions.create comes to: it raises, or
\* it returns a message with a content
FetchError == [kind |-> "error", content |-> <<>>]
Content(t) == [kind |-> "content", content |-> t]
FetchReplies == {FetchError, Content(<<" ", "1", "0", "0">>), Content(<<>>)}

\* python scripts/fetch_answers.py --input questions.csv --output out in the
\* environment env: main() up to the test of OPENAI_API_KEY, which raises
\* SystemExit when the name is missing or empty (this script reads no .env)
FetchMain(env, out) ==
  /\ pc \in {"start", "done", "crashed", "exited"}
  /\ program' = "fetch_answers"
  /\ environ' = env
  /\ API_KEY' = Unset
  /\ args' = [NoArgs EXCEPT !.output = out]
  /\ FreshProcess
  /\ pc' = IF Falsy(env["OPENAI_API_KEY"]) THEN "exited" ELSE "fetch_read"
  /\ UNCHANGED <<files, now, runs, writes, dotenv>>
  /\ UNCHANGED validatorVars
  /\ UNCHANGED assetVars

\* fetch_answers.main: rows = list(reader), then asyncio.run of
\* process_questions up to gather: the semaphore and one process_row task
\* per row
FetchRead ==
  /\ pc = "fetch_read"
  /\ all_rows' = [i \in 1..Len(files[args.input]) |-> i]
  /\ heap' = files[args.input]
  /\ read_rows' = files[args.input]
  /\ sem' = FetchConcurrency
  /\ tasks' = [k \in 1..Len(files[args.input]) |->
                 [row |-> k, pc |-> "new", sent |-> FALSE, failed |-> FALSE]]
  /\ pc' = "fetch"
  /\ UNCHANGED <<files, now, runs, args, target_rows, batch_idx, processed_count,
                 backup_path, issued, saved, out_writes, returned, writes>>
  /\ UNCHANGED validatorVars
  /\ UNCHANGED assetVars
  /\ UNCHANGED startupVars

\* process_row goes on to fetch_answer for a row with a blank answer and a
\* question
NeedsAnswer(row) == Strip(row.loesung) = <<>> /\ row.frage # ""

\* FetchStart without the test of row["loesung"]
FetchStart_no_skip(k) ==
  /\ pc = "fetch"
  /\ k \in 1..Len(tasks)
  /\ tasks[k].pc = "new"
  /\ IF heap[tasks[k].row].frage = ""
     THEN /\ tasks' = [tasks EXCEPT ![k].pc = "done"]
          /\ UNCHANGED <<sem, issued>>
     ELSE /\ sem > 0
          /\ sem' = sem - 1
          /\ tasks' = [tasks EXCEPT ![k].pc = "request", ![k].sent = TRUE]
          /\ issued' = TRUE
  /\ UNCHANGED <<files, now, runs, pc, args, all_rows, heap, target_rows,
                 batch_idx, processed_count, backup_path, read_rows, saved,
                 out_writes, returned, writes>>
  /\ UNCHANGED validatorVars
  /\ UNCHANGED assetVars
  /\ UNCHANGED startupVars

\* process_row up to its request: "Skip" for a row with an answer, return for
\* a row without question, otherwise fetch_answer enters the semaphore (a
\* call that finds no slot stays where it is) and sends the request
FetchStart(k) ==
  /\ pc = "fetch"
  /\ k \in 1..Len(tasks)
  /\ tasks[k].pc = "new"
  /\ IF ~NeedsAnswer(heap[tasks[k].row])
     THEN /\ tasks' = [tasks EXCEPT ![k].pc = "done"]
          /\ UNCHANGED <<sem, issued>>
     ELSE /\ sem > 0
          /\ sem' = sem - 1
          /\ tasks' = [tasks EXCEPT ![k].pc = "request", ![k].sent = TRUE]
          /\ issued' = TRUE
  /\ UNCHANGED <<files, now, runs, pc, args, all_rows, heap, target_rows,
                 batch_idx, processed_count, backup_path, read_rows, saved,
                 out_writes, returned, writes>>
  /\ UNCHANGED validatorVars
  /\ UNCHANGED assetVars
  /\ UNCHANGED startupVars

\* the request of task k ends: fetch_answer returns content.strip(), or ""
\* after an exception, and process_row assigns it to row["loesung"]
FetchRespond(k, reply) ==
  /\ pc = "fetch"
  /\ k \in 1..Len(tasks)
  /\ tasks[k].pc = "request"
  /\ sem' = sem + 1
  /\ heap' = [heap EXCEPT ![tasks[k].row].loesung =
                IF reply.kind = "error" THEN <<>> ELSE Strip(reply.content)]
  /\ tasks' = [tasks EXCEPT ![k].pc = "done",
                            ![k].failed = (reply.kind = "error")]
  /\ UNCHANGED <<files, now, runs, pc, args, all_rows, target_rows, batch_idx,
                 processed_count, backup_path, read_rows, issued, saved,
                 out_writes, returned, writes>>
  /\ UNCHANGED validatorVars
  /\ UNCHANGED assetVars
  /\ UNCHANGED startupVars

\* gather has every row: the output is written
FetchWrite ==
  /\ pc = "fetch"
  /\ \A k \in 1..Len(tasks) : tasks[k].pc = "done"
  /\ files' = save_csv(files, all_rows, heap, args.output)
  /\ writes' = CountWrite(writes, args.output)
  /\ out_writes' = out_writes + 1
  /\ pc' = "done"
  /\ UNCHANGED <<now, runs, args, all_rows, heap, target_rows, batch_idx,
                 processed_count, backup_path, sem, tasks, read_rows, issued,
                 saved, returned>>
  /\ UNCHANGED validatorVars
  /\ UNCHANGED assetVars
  /\ UNCHANGED startupVars

(* ------------------------------- web app ------------------------------- *)
\* the three cards of the game view and the classes their elements take
CardKeys == {"hint1", "hint2", "sol"}

\* ids of the questions in DB, and an id that is not in it
DB == {1, 2}
UnknownId == 9

\* class="game-card active" for hint1 and "game-card locked" for the others,
\* in the markup and after resetCard
ResetCards ==
  [c \in CardKeys |->
     IF c = "hint1" THEN {"game-card", "active"} ELSE {"game-card", "locked"}]

\* the page has not been loaded
NoPage ==
  /\ view = "closed"
  /\ card_id = 0
  /\ classList = ResetCards
  /\ timer = 0
  /\ timeouts = <<>>
  /\ down = {}
  /\ presses = <<>>
  /\ reveals = {}

\* loadCard(id) on the view and the cards: an id missing in DB shows the
\* search view, any other id shows the game view with the cards reset
loadCard(id) ==
  IF id \notin DB
  THEN /\ view' = "search"
       /\ UNCHANGED <<card_id, classList>>
  ELSE /\ view' = "game"
       /\ card_id' = id
       /\ classList' = ResetCards

\* DOMContentLoaded with ?id=id in the address (0: no id): setupInteractions,
\* then loadCard if there is an id; without one the search view is shown
OpenPage(id) ==
  /\ view = "closed"
  /\ IF id = 0
     THEN view' = "search" /\ UNCHANGED <<card_id, classList>>
     ELSE loadCard(id)
  /\ UNCHANGED <<timer, timeouts, down, presses, reveals>>
  /\ UNCHANGED <<runVars, validatorVars, startupVars, cardVars>>

\* search() with val typed into the input of the search view: a val that is
\* not in DB shows a toast only
search(val) ==
  /\ view = "search"
  /\ IF val \in DB THEN loadCard(val) ELSE UNCHANGED <<view, card_id, classList>>
  /\ UNCHANGED <<timer, timeouts, down, presses, reveals>>
  /\ UNCHANGED <<runVars, validatorVars, startupVars, cardVars>>

\* showSearch(), the "New Card" button of the game view
showSearch ==
  /\ view = "game"
  /\ view' = "search"
  /\ UNCHANGED <<card_id, classList, timer, timeouts, down, presses, reveals>>
  /\ UNCHANGED <<runVars, validatorVars, startupVars, cardVars>>

\* unlock(target) and dismiss(target) on the classes of all cards
unlock(cl, target) ==
  [cl EXCEPT ![target] = (@ \ {"locked"}) \cup {"active"}]
dismiss(cl, target) == [cl EXCEPT ![target] = @ \cup {"done"}]

\* reveal(target) on the classes of all cards
reveal(cl, target) ==
  LET shown == [cl EXCEPT ![target] = (@ \ {"active", "pressing"}) \cup {"revealed"}]
  IN IF target = "hint1" THEN unlock(shown, "hint2")
     ELSE IF target = "hint2" THEN unlock(dismiss(shown, "hint1"), "sol")
     ELSE dismiss(shown, "hint2")

\* the handler "start" of the button of card c, for a mousedown of the main
\* button or a touchstart (any other mousedown returns at once; so does a
\* press on a card that is not active, which changes nothing): the card
\* is pressing and a new timeout, due HOLD_TIME later, replaces the value of
\* timer; a timeout set before is not cleared
start(c) ==
  /\ view = "game"
  /\ Len(presses) < MaxPresses
  /\ "active" \in classList[c]
  /\ LET p == Len(presses) + 1
     IN /\ presses' = Append(presses, [target |-> c, ended |-> "held"])
        /\ down' = down \cup {p}
        /\ timer' = p
        /\ timeouts' = Append(timeouts, [id |-> p, target |-> c, cleared |-> FALSE])
  /\ classList' = [classList EXCEPT ![c] = @ \cup {"pressing"}]
  /\ UNCHANGED <<view, card_id, reveals>>
  /\ UNCHANGED <<runVars, validatorVars, startupVars, cardVars>>

\* clearTimeout(id): a timeout that is not due yet will not run its callback
clearTimeout(queue, id) ==
  [i \in 1..Len(queue) |->
     IF queue[i].id = id THEN [queue[i] EXCEPT !.cleared = TRUE] ELSE queue[i]]

\* the handler "end" of the button of card c on timer, timeouts and classes
\* (the toast is display only)
end(c) ==
  /\ IF timer # 0
     THEN timeouts' = clearTimeout(timeouts, timer) /\ timer' = 0
     ELSE UNCHANGED <<timer, timeouts>>
  /\ classList' = [classList EXCEPT ![c] = @ \ {"pressing"}]

\* HOLD_TIME has not passed since press p began: its timeout is not due yet
InHoldTime(p) == \E i \in 1..Len(timeouts) : timeouts[i].id = p

\* press p ends on its button (mouseup, touchend, touchcancel): "end" runs
Release(p) ==
  /\ p \in down
  /\ down' = down \ {p}
  /\ presses' = [presses EXCEPT
                   ![p].ended = IF InHoldTime(p) THEN "early" ELSE "late"]
  /\ end(presses[p].target)
  /\ UNCHANGED <<view, card_id, reveals>>
  /\ UNCHANGED <<runVars, validatorVars, startupVars, cardVars>>

\* the pointer leaves the button of card c (mouseleave) while no press of
\* the mouse ends: "end" runs
Leave(c) ==
  /\ view = "game"
  /\ end(c)
  /\ UNCHANGED <<view, card_id, down, presses, reveals>>
  /\ UNCHANGED <<runVars, validatorVars, startupVars, cardVars>>

\* the oldest timeout is due (all have the delay HOLD_TIME): unless it was
\* cleared its callback sets timer to null and reveals its card
Expire ==
  /\ timeouts # <<>>
  /\ timeouts' = Tail(timeouts)
  /\ IF Head(timeouts).cleared
     THEN UNCHANGED <<timer, classList, reveals>>
     ELSE /\ timer' = 0
          /\ classList' = reveal(classList, Head(timeouts).target)
          /\ reveals' = reveals \cup {Head(timeouts).target}
  /\ UNCHANGED <<view, card_id, down, presses>>
  /\ UNCHANGED <<runVars, validatorVars, startupVars, cardVars>>

(* ---------------------------- card generator -------------------------- *)
\* generate_cards_png has not been started
NoCards ==
  /\ card_pc = "start"
  /\ card_args = <<>>
  /\ cards = <<>>
  /\ page_start = 0
  /\ generated_pages = <<>>

\* GRID_ROWS, and batch_size of main
GRID_ROWS == 5
batch_size == 5

\* the ids of the rows of the input, in the order of the file
CardInput == [i \in 1..MaxCards |-> i]

\* "if args.start", "if args.end": an option not given and the number 0 are
\* both false
Truthy(option) == option # None /\ option[1] # 0

\* "Filtering logic": with --ids the ids listed, otherwise --start and --end
Selected(a, cid) ==
  IF a.ids # <<>>
  THEN \E j \in 1..Len(a.ids) : a.ids[j] = cid
  ELSE /\ ~(Truthy(a.start) /\ cid < a.start[1])
       /\ ~(Truthy(a.end) /\ cid > a.end[1])

\* the cards appended while the file is read
ReadCards(a) ==
  LET Keep(cid) == Selected(a, cid) IN SelectSeq(CardInput, Keep)

\* math.ceil(n / d)
Ceil(n, d) == IF n % d = 0 THEN n \div d ELSE n \div d + 1

\* total_pages = math.ceil(len(cards) / batch_size)
total_pages == Ceil(Len(cards), batch_size)

\* cards[i : i + batch_size] with every fifth card left out
CardBatch_skips_last(i) ==
  SubSeq(cards, i + 1,
         IF i + batch_size - 1 < Len(cards) THEN i + batch_size - 1 ELSE Len(cards))

\* batch = cards[i : i + batch_size]
CardBatch(i) ==
  SubSeq(cards, i + 1,
         IF i + batch_size < Len(cards) THEN i + batch_size ELSE Len(cards))

\* render_page(batch): the cards drawn in the rows of the sheet, back and
\* front side by side; the loop leaves at row GRID_ROWS
render_page(batch) ==
  [idx \in 1..(IF Len(batch) < GRID_ROWS THEN Len(batch) ELSE GRID_ROWS) |->
     batch[idx]]

\* main up to the loop: the command line is parsed and the cards are read
CardsMain(first, last, ids) ==
  /\ card_pc = "start"
  /\ card_args' = [start |-> first, end |-> last, ids |-> ids]
  /\ cards' = ReadCards([start |-> first, end |-> last, ids |-> ids])
  /\ page_start' = 0
  /\ generated_pages' = <<>>
  /\ card_pc' = "render"
  /\ UNCHANGED <<runVars, validatorVars, startupVars, webVars>>

\* one turn of "for i in range(0, len(cards), batch_size)"
RenderNext ==
  /\ card_pc = "render"
  /\ page_start < Len(cards)
  /\ generated_pages' = Append(generated_pages, render_page(CardBatch(page_start)))
  /\ page_start' = page_start + batch_size
  /\ UNCHANGED <<card_pc, card_args, cards>>
  /\ UNCHANGED <<runVars, validatorVars, startupVars, webVars>>

\* the loop is over: the pages are saved as one PDF (if there is a page)
\* and "Done! {total_pages} sheets" is printed
CardsSave ==
  /\ card_pc = "render"
  /\ page_start >= Len(cards)
  /\ card_pc' = "done"
  /\ UNCHANGED <<card_args, cards, page_start, generated_pages>>
  /\ UNCHANGED <<runVars, validatorVars, startupVars, webVars>>

(* --------------------------- specifications ---------------------------- *)
\* the module level code of polish_questions_web has found a credential
Imported ==
  /\ program = "polish_questions_web"
  /\ environ = [n \in CredentialNames |->
                  IF n = "OPENAI_API_KEY" THEN "sk" ELSE Unset]
  /\ dotenv = [exists |-> FALSE, lines |-> NoEnvironment]
  /\ API_KEY = "sk"

RunInit ==
  /\ Imported
  /\ NoPage
  /\ NoCards
  /\ now = 1
  /\ runs = 0
  /\ pc = "idle"
  /\ args = NoArgs
  /\ all_rows = <<>>
  /\ heap = <<>>
  /\ target_rows = <<>>
  /\ batch_idx = 0
  /\ processed_count = 0
  /\ backup_path = ""
  /\ sem = 0
  /\ tasks = <<>>
  /\ read_rows = <<>>
  /\ issued = FALSE
  /\ saved = 0
  /\ out_writes = 0
  /\ returned = [r \in {} |-> EmptyPair]
  /\ writes = [q \in {} |-> 0]

Init ==
  /\ vHint = <<>> /\ vAnswer = <<>> /\ vResult = "none"
  /\ \E v \in 0..1 : files = [q \in {InputPath} |-> InputTable(v)]
  /\ RunInit

\* one run of the program, with every reply of the service
Next ==
  \/ \E out \in {InputPath, OtherPath} :
       \E conc \in 0..MaxConcurrency :
         \E size \in 1..MaxBatchSize : runs = 0 /\ StartRun(out, conc, size, 1, None)
  \/ WriteBackup(now)
  \/ StartBatch
  \/ \E k \in 1..NumRows : TaskStart(k)
  \/ \E k \in 1..NumRows : Acquire(k)
  \/ \E k \in 1..NumRows : \E reply \in ServiceReplies : Respond(k, reply)
  \/ FinishBatch
  \/ FinishRun
  \/ Crash

Spec == Init /\ [][Next]_vars

\* the program run again and again (after "DONE!" or after a crash), with a
\* service that either fails or returns one good pair
NextRuns ==
  \/ \E out \in {InputPath, OtherPath} :
       runs < MaxRuns /\ StartRun(out, 1, MaxBatchSize, 1, None)
  \/ \E t \in 1..MaxTime : WriteBackup(t)
  \/ StartBatch
  \/ \E k \in 1..NumRows : TaskStart(k)
  \/ \E k \in 1..NumRows : Acquire(k)
  \/ \E k \in 1..NumRows :
       \E reply \in {Failure("error"), Json(Good, GoodDecorated)} : Respond(k, reply)
  \/ FinishBatch
  \/ FinishRun
  \/ Crash

SpecRuns == Init /\ [][NextRuns]_vars

(* ------------------------- start-up specification --------------------- *)
\* no process has run yet; the input file and the file .env are on disk
InitStartup ==
  /\ vHint = <<>> /\ vAnswer = <<>> /\ vResult = "none"
  /\ NoPage
  /\ NoCards
  /\ \E v \in 0..1 : files = [q \in {InputPath} |-> InputTable(v)]
  /\ program = "none"
  /\ environ = NoEnvironment
  /\ dotenv \in DotenvFiles
  /\ API_KEY = Unset
  /\ pc = "start"
  /\ now = 1
  /\ runs = 0
  /\ args = NoArgs
  /\ all_rows = <<>>
  /\ heap = <<>>
  /\ target_rows = <<>>
  /\ batch_idx = 0
  /\ processed_count = 0
  /\ backup_path = ""
  /\ sem = 0
  /\ tasks = <<>>
  /\ read_rows = <<>>
  /\ issued = FALSE
  /\ saved = 0
  /\ out_writes = 0
  /\ returned = [r \in {} |-> EmptyPair]
  /\ writes = [q \in {} |-> 0]

\* either script started in any environment, again after it refused to
\* start, and then run once with a service that answers
NextStartup ==
  \/ \E env \in Environments : pc \in {"start", "exited"} /\ LoadCredential(env)
  \/ \E env \in Environments :
       pc \in {"start", "exited"} /\ FetchMain(env, InputPath)
  \/ FetchRead
  \/ \E k \in 1..NumRows : FetchStart(k)
  \/ \E k \in 1..NumRows :
       \E reply \in FetchReplies : FetchRespond(k, reply)
  \/ FetchWrite
  \/ program = "polish_questions_web" /\ pc = "idle"
       /\ StartRun(InputPath, 1, MaxBatchSize, 1, None)
  \/ WriteBackup(now)
  \/ StartBatch
  \/ \E k \in 1..NumRows : TaskStart(k)
  \/ \E k \in 1..NumRows : Acquire(k)
  \/ \E k \in 1..NumRows : Respond(k, Json(Good, GoodDecorated))
  \/ FinishBatch
  \/ FinishRun
  \/ Crash

SpecStartup == InitStartup /\ [][NextStartup]_vars

(* ------------------------ scenario specification ---------------------- *)
InitScenario ==
  /\ vHint = <<>> /\ vAnswer = <<>> /\ vResult = "none"
  /\ \E v \in 0..1 :
       files = [q \in {InputPath} |-> <<BurjKhalifa, InputRow(1, v)>>]
  /\ RunInit

NextScenario ==
  \/ \E out \in {InputPath, OtherPath} :
       \E conc \in 1..MaxConcurrency :
         \E size \in 1..MaxBatchSize : runs = 0 /\ StartRun(out, conc, size, 1, None)
  \/ WriteBackup(now)
  \/ StartBatch
  \/ \E k \in 1..NumRows : TaskStart(k)
  \/ \E k \in 1..NumRows : Acquire(k)
  \/ \E k \in 1..NumRows :
       /\ k \in 1..Len(tasks)
       /\ pc = "gather"
       /\ \E reply \in ScenarioReplies(heap[tasks[k].row], tasks[k].attempt) :
            Respond(k, reply)
  \/ FinishBatch
  \/ FinishRun
  \/ Crash

SpecScenario == InitScenario /\ [][NextScenario]_vars

(* -------------------------- fair specification ------------------------ *)
\* one run that nothing kills, with a service that answers every request
\* (a good pair, or an error), for every --concurrency from 0 on
FairReplies == {Failure("error"), Json(Good, GoodDecorated)}

NextFair ==
  \/ \E out \in {InputPath, OtherPath} :
       \E conc \in 0..MaxConcurrency :
         \E size \in 1..MaxBatchSize : runs = 0 /\ StartRun(out, conc, size, 1, None)
  \/ WriteBackup(now)
  \/ StartBatch
  \/ \E k \in 1..NumRows : TaskStart(k)
  \/ \E k \in 1..NumRows : Acquire(k)
  \/ \E k \in 1..NumRows : \E reply \in FairReplies : Respond(k, reply)
  \/ FinishBatch
  \/ FinishRun

\* main runs on without pause; the event loop runs every task that can run
\* and wakes a waiter of the semaphore when a slot is free; every request in
\* flight ends, with a reply or with an exception
Fairness ==
  /\ WF_vars(WriteBackup(now))
  /\ WF_vars(StartBatch)
  /\ WF_vars(FinishBatch)
  /\ WF_vars(FinishRun)
  /\ \A k \in 1..NumRows :
       /\ WF_vars(TaskStart(k))
       /\ SF_vars(Acquire(k))
       /\ WF_vars(\E reply \in FairReplies : Respond(k, reply))

SpecFair == Init /\ [][NextFair]_vars /\ Fairness

(* ------------------------- range specification ----------------------- *)
\* one run with --start and --end chosen: --end not given, or any id
\* from 0 up to the last id of the input
RangeStarts == 1..NumRows - 1
RangeEnds == {None} \cup {<<n>> : n \in 0..NumRows}

NextRange ==
  \/ \E out \in {InputPath, OtherPath} :
       \E size \in 1..MaxBatchSize :
         \E first \in RangeStarts :
           \E last \in RangeEnds :
             runs = 0 /\ StartRun(out, 1, size, first, last)
  \/ WriteBackup(now)
  \/ StartBatch
  \/ \E k \in 1..NumRows : TaskStart(k)
  \/ \E k \in 1..NumRows : Acquire(k)
  \/ \E k \in 1..NumRows : \E reply \in FairReplies : Respond(k, reply)
  \/ FinishBatch
  \/ FinishRun

SpecRange == Init /\ [][NextRange]_vars

(* ------------------------- fetch specification ------------------------ *)
\* input of fetch_answers: rows with an answer, with a blank answer (empty,
\* or one blank), with and without question
Answer100 == <<"1", "0", "0", " ", "m">>

FetchTable(v) ==
  IF v = 0
  THEN << [id |-> 1, frage |-> "Wie hoch?", loesung |-> Answer100,
           tipp1 |-> <<>>, tipp2 |-> <<>>],
          [id |-> 2, frage |-> "Wie hoch?", loesung |-> <<>>,
           tipp1 |-> <<>>, tipp2 |-> <<>>],
          [id |-> 3, frage |-> "", loesung |-> <<>>,
           tipp1 |-> <<>>, tipp2 |-> <<>>] >>
  ELSE << [id |-> 1, frage |-> "Wie hoch?", loesung |-> <<" ">>,
           tipp1 |-> PriorHint, tipp2 |-> <<>>],
          [id |-> 2, frage |-> "", loesung |-> Answer100,
           tipp1 |-> <<>>, tipp2 |-> <<>>],
          [id |-> 3, frage |-> "Wie hoch?", loesung |-> <<>>,
           tipp1 |-> <<>>, tipp2 |-> <<>>] >>

InitFetch ==
  /\ vHint = <<>> /\ vAnswer = <<>> /\ vResult = "none"
  /\ NoPage
  /\ NoCards
  /\ \E v \in 0..1 : files = [q \in {InputPath} |-> FetchTable(v)]
  /\ program = "none"
  /\ environ = NoEnvironment
  /\ dotenv = [exists |-> FALSE, lines |-> NoEnvironment]
  /\ API_KEY = Unset
  /\ pc = "start"
  /\ now = 1
  /\ runs = 0
  /\ args = NoArgs
  /\ all_rows = <<>>
  /\ heap = <<>>
  /\ target_rows = <<>>
  /\ batch_idx = 0
  /\ processed_count = 0
  /\ backup_path = ""
  /\ sem = 0
  /\ tasks = <<>>
  /\ read_rows = <<>>
  /\ issued = FALSE
  /\ saved = 0
  /\ out_writes = 0
  /\ returned = [r \in {} |-> EmptyPair]
  /\ writes = [q \in {} |-> 0]

\* fetch_answers run once, in any environment, with every reply of the
\* service for every request
NextFetch ==
  \/ \E env \in Environments :
       \E out \in {InputPath, OtherPath} :
         pc \in {"start", "exited"} /\ FetchMain(env, out)
  \/ FetchRead
  \/ \E k \in 1..NumRows : FetchStart(k)
  \/ \E k \in 1..NumRows :
       \E reply \in FetchReplies : FetchRespond(k, reply)
  \/ FetchWrite

SpecFetch == InitFetch /\ [][NextFetch]_vars

(* ----------------------- short-hint specification --------------------- *)
\* one run with a service whose replies pass the quality check and differ in
\* length only: a pair with a hint of 4 characters, a pair of long hints
ShortReplies == {Json(Good, Short), Json(Good, GoodDecorated)}

NextShort ==
  \/ \E out \in {InputPath, OtherPath} :
       \E conc \in 1..MaxConcurrency :
         \E size \in 1..MaxBatchSize : runs = 0 /\ StartRun(out, conc, size, 1, None)
  \/ WriteBackup(now)
  \/ StartBatch
  \/ \E k \in 1..NumRows : TaskStart(k)
  \/ \E k \in 1..NumRows : Acquire(k)
  \/ \E k \in 1..NumRows : \E reply \in ShortReplies : Respond(k, reply)
  \/ FinishBatch
  \/ FinishRun
  \/ Crash

SpecShort == Init /\ [][NextShort]_vars

(* -------------------------- web app specification --------------------- *)
InitWeb ==
  /\ vHint = <<>> /\ vAnswer = <<>> /\ vResult = "none"
  /\ files = [q \in {InputPath} |-> InputTable(0)]
  /\ RunInit

\* the page opened with or without an id in its address, then any events of
\* the user and of the clock
NextWeb ==
  \/ \E id \in {0, UnknownId} \cup DB : OpenPage(id)
  \/ \E val \in {UnknownId} \cup DB : search(val)
  \/ showSearch
  \/ \E c \in CardKeys : start(c)
  \/ \E p \in 1..MaxPresses : Release(p)
  \/ \E c \in CardKeys : Leave(c)
  \/ Expire

SpecWeb == InitWeb /\ [][NextWeb]_vars

(* ---------------------- card generator specification ----------------- *)
\* the options tried: --start and --end not given, 0 or an id; --ids not
\* given, some ids, one id, an id that no row has
CardStarts == {None, <<0>>, <<2>>, <<4>>}
CardEnds == {None, <<0>>, <<7>>, <<MaxCards - 1>>}
CardIdLists == {<<>>, <<1, 2, 5>>, <<3>>, <<MaxCards + 1>>}

NextCards ==
  \/ \E first \in CardStarts :
       \E last \in CardEnds :
         \E ids \in CardIdLists : CardsMain(first, last, ids)
  \/ RenderNext
  \/ CardsSave

SpecCards == InitWeb /\ [][NextCards]_vars

(* ------------------------ validator specification --------------------- *)
\* atoms the enumerated hints are built from
HintAlphabet == {"1", "0", ",", " ", "m", "knapp unter"}

RECURSIVE TextsUpTo(_)
TextsUpTo(n) ==
  IF n = 0 THEN {<<>>}
  ELSE LET shorter == TextsUpTo(n - 1)
       IN shorter \cup {Append(t, a) : t \in {x \in shorter : Len(x) = n - 1},
                                       a \in HintAlphabet}

\* hints that meet each entry of BAD_PATTERNS, in either case, and near misses
PatternHints ==
  {<<"Unit", ":", " ", "m">>, <<"unit", " ", "m">>, <<"m", "unit", ":">>,
   <<"Einheit", ":", " ", "m">>, <<"einheit", "m">>,
   <<"1", " ", "liegt zwischen", " ", "1", "0", "0", " ", "and", " ", "2", "0", "0">>,
   <<"between", " ", "1", "0", " ", "and", " ", "2", "0">>,
   <<"between", " ", "1", "0", " ", "and", " ", "m">>,
   <<"vierstellig">>,
   <<"tiefste", " ", "Eiffelturm", " ", "der Welt">>,
   <<"tiefsten", " ", "Stufen", " ", "der Welt", " ", "9", "0">>,
   <<"tiefste", "der Welt">>,
   <<"quelle ist", " ", "m">>, <<"laut Messung", " ", "9">>,
   <<"wird in Metern angegeben">>,
   <<"KNAPP UNTER", " ", "3", "0", "0", "0">>,
   <<"nur knapp", " ", "1">>, <<"fast genau", " ", "5">>,
   <<"ungefaehr", " ", "5", "0">>, <<"ungefaehr", " ", "m">>}

\* hints with a numeral: far from every answer, a decimal number standing
\* alone, a decimal number with its unit attached
NumeralHints ==
  {<<"Eiffelturm", " ", "8", "6", "1", "1">>,
   <<"Eiffelturm", " ", "2", ".", "9", " ", "m">>,
   <<"Eiffelturm", " ", "2", ".", "9", "m">>}

ValidatorHints == TextsUpTo(MaxHintLen) \cup PatternHints \cup NumeralHints

\* answers: empty, blank, zero, numbers with and without unit, a decimal
\* comma, no digit at all, two points
ValidatorAnswers ==
  {<<>>, <<" ">>, <<"0">>, <<"1", "0">>, <<"1", "0", " ", "m">>,
   <<"1", "0", "m">>, <<"1", ",", "1">>, <<"1", "0", "0", "0", "0">>, <<"m">>,
   <<"1", ".", "0", ".", "0">>, <<"2", "9", "6", "2">>, <<"2">>}

\* one call hint_is_bad(vHint, vAnswer)
Validate ==
  /\ vResult = "none"
  /\ vResult' = IF hint_is_bad_raises(vHint, vAnswer) THEN "IndexError"
                ELSE IF hint_is_bad(vHint, vAnswer) THEN "reject"
                ELSE "accept"
  /\ UNCHANGED <<vHint, vAnswer>>
  /\ UNCHANGED runVars
  /\ UNCHANGED assetVars
  /\ UNCHANGED startupVars

InitValidator ==
  /\ vHint \in ValidatorHints
  /\ vAnswer \in ValidatorAnswers
  /\ vResult = "none"
  /\ files = [q \in {InputPath} |-> InputTable(0)]
  /\ RunInit

NextValidator == Validate

SpecValidator == InitValidator /\ [][NextValidator]_vars

(* ------------------------------- claims -------------------------------- *)
\* the numerals a text contains, wherever they stand: \d+(?:[.,]\d+)? read
\* left to right, a decimal comma as a decimal point
RECURSIVE NumeralsFrom(_, _)
NumeralsFrom(t, i) ==
  IF i > Len(t) THEN <<>>
  ELSE IF t[i] \notin Digit THEN NumeralsFrom(t, i + 1)
  ELSE LET j == RunEnd(t, i, Digit)
           hasFrac == j + 2 <= Len(t) /\ t[j + 1] \in Separator /\ t[j + 2] \in Digit
           k == IF hasFrac THEN RunEnd(t, j + 2, Digit) ELSE j
       IN <<Decimal(SubSeq(t, i, j), SubSeq(t, j + 1 + 1, k))>> \o NumeralsFrom(t, k + 1)

\* the answer's leading token parses to a nonzero number
AnswerIsNonzeroNumber(answer) ==
  /\ ~SplitRaises(answer)
  /\ AnsClean(answer) # <<>>
  /\ ~FloatRaises(AnsClean(answer))
  /\ ~IsZero(AnsVal(answer))

\* the text has a numeral n with 0.75 * a <= n <= 1.25 * a, a the answer
NumeralNearAnswer(t, answer) ==
  LET nums == NumeralsFrom(t, 1)
  IN \E i \in 1..Len(nums) : RatioInWindow(nums[i], AnsVal(answer))

\* C1: a hint that contains a numeral within 25% of a nonzero numeric answer,
\* standalone or attached to other characters, is rejected by the validator
C1_NearNumeralRejected ==
  (/\ vResult # "none"
   /\ AnswerIsNonzeroNumber(vAnswer)
   /\ NumeralNearAnswer(vHint, vAnswer))
  => vResult = "reject"

\* C3: a hint that matches an entry of the pattern table is rejected whatever
\* the answer is (empty, blank, zero, far from the hint's numerals)
C3_PatternRejectedForEveryAnswer ==
  (vResult # "none" /\ \E p \in BAD_PATTERNS : re_search(p, vHint))
  => vResult = "reject"

\* a hint with a forbidden phrase and no number, validated against the empty
\* answer, is rejected
C3_Witness ==
  /\ vResult = "reject"
  /\ re_search(10, vHint)
  /\ extract_numbers(vHint) = <<>>
  /\ vAnswer = <<>>

(* ---- claims about the pipeline: what the history variables record ------ *)
\* rows whose generate_hints call returned a pair with hints in it
Accepted == {r \in DOMAIN returned : returned[r] # EmptyPair}

\* position of row r in target_rows, and its batch (0-based)
PositionOf(r) == CHOOSE i \in 1..Len(target_rows) : target_rows[i] = r
BatchNumberOf(r) == (PositionOf(r) - 1) \div args.batch_size

\* the rows as read, with the hints returned for the rows of the first k
\* batches stored into them
ExpectedAfter(k) ==
  [i \in 1..Len(read_rows) |->
     IF i \in Accepted /\ BatchNumberOf(i) < k
     THEN [read_rows[i] EXCEPT !.tipp1 = returned[i].tipp1,
                               !.tipp2 = returned[i].tipp2]
     ELSE read_rows[i]]

\* the requests in flight
InFlight == {k \in 1..Len(tasks) : tasks[k].pc = "request"}

\* C2: every hint the pipeline accepts matches no forbidden pattern and holds
\* no numeral within 25% of the record's answer, for both hints of the pair
C2_AcceptedHintsClean ==
  \A r \in Accepted :
    \A h \in {returned[r].tipp1, returned[r].tipp2} :
      /\ ~MatchesBadPattern(h)
      /\ AnswerIsNonzeroNumber(read_rows[r].loesung)
           => ~NumeralNearAnswer(h, read_rows[r].loesung)

\* C4: generate_hints returns the empty pair, or two non-empty hints that
\* both come from one reply and both passed validation in that attempt
C4_BothOrNeither ==
  \A k \in 1..Len(tasks) :
    (tasks[k].pc = "done" /\ heap[tasks[k].row].frage # "") =>
      \/ tasks[k].result = EmptyPair /\ tasks[k].attempt = MaxAttempts - 1
      \/ /\ tasks[k].reply.kind = "json"
         /\ tasks[k].result.tipp1 = CleanHint(tasks[k].reply.tipp1)
         /\ tasks[k].result.tipp2 = CleanHint(tasks[k].reply.tipp2)
         /\ \A h \in {tasks[k].result.tipp1, tasks[k].result.tipp2} :
              /\ h # <<>>
              /\ ~hint_is_bad_raises(h, heap[tasks[k].row].loesung)
              /\ ~hint_is_bad(h, heap[tasks[k].row].loesung)
              /\ TextLen(h) >= MinHintLen

\* one call returned a validated pair after a rejected attempt, another
\* returned the empty pair after three rejected attempts
C4_Witness ==
  /\ \E k \in 1..Len(tasks) :
       tasks[k].pc = "done" /\ tasks[k].result # EmptyPair /\ tasks[k].attempt > 0
  /\ \E k \in 1..Len(tasks) :
       /\ tasks[k].pc = "done" /\ tasks[k].result = EmptyPair
       /\ heap[tasks[k].row].frage # ""

\* C5: at most N = --concurrency requests are in flight at any moment,
\* also when the batch has more rows than N
C5_InFlightBounded == Cardinality(InFlight) <= args.concurrency

\* a batch of two rows under N = 1: one request in flight, one task waiting
C5_Witness ==
  /\ args.concurrency = 1
  /\ Len(tasks) > args.concurrency
  /\ Cardinality(InFlight) = 1
  /\ \E k \in 1..Len(tasks) : tasks[k].pc = "waiting"

\* C6: from the save of batch k to the next save (and after a crash in
\* between) the output holds all rows, with the hints accepted in batches
\* 1..k and none of a later batch
C6_OutputHoldsSavedBatches ==
  saved >= 1 =>
    /\ args.output \in DOMAIN files
    /\ files[args.output] = ExpectedAfter(saved)

\* crashed after the first of two batches, with hints accepted in both
C6_Witness ==
  /\ pc = "crashed"
  /\ saved = 1
  /\ \E r \in Accepted : BatchNumberOf(r) = 0
  /\ \E r \in Accepted : BatchNumberOf(r) = 1

\* C7: while a request of a row of batch b is in flight, every row of the
\* batches before b is finished and exactly those b batches are saved
C7_BatchesInOrder ==
  \A k \in InFlight :
    LET b == BatchNumberOf(tasks[k].row)
    IN /\ saved = b
       /\ \A i \in 1..Len(target_rows) :
            (BatchNumberOf(target_rows[i]) < b
             /\ heap[target_rows[i]].frage # "")
            => target_rows[i] \in DOMAIN returned

\* a request of the second batch is in flight
C7_Witness ==
  \E k \in InFlight : BatchNumberOf(tasks[k].row) = 1 /\ saved = 1

\* C8: once the run has sent a request or written the output, its backup
\* file exists and holds the rows exactly as read from the input
C8_BackupFirst ==
  (issued \/ out_writes > 0) =>
    /\ backup_path \in DOMAIN files
    /\ files[backup_path] = read_rows

\* output = input: the input file has been rewritten with new hints and the
\* backup still holds the rows as read
C8_Witness ==
  /\ args.output = args.input
  /\ out_writes > 0
  /\ files[args.input] # read_rows
  /\ backup_path \in DOMAIN files
  /\ files[backup_path] = read_rows

\* C10: a row for which generate_hints returned the empty pair keeps the
\* tipp1 and tipp2 it was read with, in memory and in the output written
C10_EmptyPairKeepsHints ==
  \A r \in DOMAIN returned :
    returned[r] = EmptyPair =>
      /\ pc # "crashed" =>
           /\ heap[r].tipp1 = read_rows[r].tipp1
           /\ heap[r].tipp2 = read_rows[r].tipp2
      /\ (saved > BatchNumberOf(r) /\ args.output \in DOMAIN files) =>
           /\ files[args.output][r].tipp1 = read_rows[r].tipp1
           /\ files[args.output][r].tipp2 = read_rows[r].tipp2

\* a row read with hints of an earlier run, all attempts failed, batch saved
C10_Witness ==
  \E r \in DOMAIN returned :
    /\ returned[r] = EmptyPair
    /\ read_rows[r].tipp1 # <<>>
    /\ saved > BatchNumberOf(r)
    /\ files[args.output][r].tipp1 = read_rows[r].tipp1

\* C9: a backup file that exists is never written again, by no later step
\* of the run and by no later run
C9_BackupNeverOverwritten ==
  [][\A t \in 1..MaxTime :
       BackupPath(t) \in DOMAIN files
       => writes'[BackupPath(t)] = writes[BackupPath(t)]]_vars

\* C11: for a row without question text no request is sent (its task never
\* waits for the semaphore nor has a request in flight, generate_hints is not
\* called for it) and every field of the row stays as read, in memory and in
\* the output written
C11_NoQuestionUntouched ==
  \A r \in 1..Len(read_rows) :
    read_rows[r].frage = "" =>
      /\ r \notin DOMAIN returned
      /\ \A k \in 1..Len(tasks) :
           tasks[k].row = r =>
             /\ tasks[k].pc \in {"new", "done"}
             /\ tasks[k].attempt = 0
             /\ tasks[k].reply = NoReply
      /\ heap # <<>> => heap[r] = read_rows[r]
      /\ (saved > 0 /\ args.output \in DOMAIN files) =>
           files[args.output][r] = read_rows[r]

\* a row without question text went through a batch that was saved, in a run
\* that sent requests and stored hints for another row
C11_Witness ==
  \E r \in 1..Len(read_rows) :
    /\ read_rows[r].frage = ""
    /\ \E i \in 1..Len(target_rows) : target_rows[i] = r
    /\ saved > BatchNumberOf(r)
    /\ issued
    /\ Accepted # {}
    /\ files[args.output][r] = read_rows[r]

\* C12: the answer field of every row stays as read, in memory and in every
\* file the run writes, whatever the service replied; and a row with a
\* question is never finished without a call of generate_hints, also when
\* its answer (and its hints) are already present
C12_AnswerNeverChanged ==
  /\ heap # <<>> =>
       \A r \in 1..Len(read_rows) : heap[r].loesung = read_rows[r].loesung
  /\ \A path \in DOMAIN files :
       \A r \in 1..Len(read_rows) :
         files[path][r].loesung = read_rows[r].loesung
  /\ \A k \in 1..Len(tasks) :
       (tasks[k].pc = "done" /\ heap[tasks[k].row].frage # "")
       => tasks[k].row \in DOMAIN returned

\* a row read with an answer and with hints got new hints, the batch was
\* saved: the output has the new hints and the answer as read
C12_Witness ==
  \E r \in Accepted :
    /\ read_rows[r].loesung # <<>>
    /\ read_rows[r].tipp1 # <<>>
    /\ saved > BatchNumberOf(r)
    /\ files[args.output][r].tipp1 = returned[r].tipp1
    /\ files[args.output][r].tipp1 # read_rows[r].tipp1
    /\ files[args.output][r].loesung = read_rows[r].loesung

\* C13: a call of generate_hints sends at most MaxAttempts requests (attempts
\* 0..2); a step in which the request of task k ends with an exception of
\* the service uses up that one attempt: below the limit the next request
\* of the same task is in flight, at the limit the call returns the empty
\* pair; the row objects, the files, the other tasks and main() are as before
C13_ErrorConsumesOneAttempt ==
  [][\A k \in 1..Len(tasks) :
       /\ k \in DOMAIN tasks' => tasks'[k].attempt < MaxAttempts
       /\ (/\ tasks[k].pc = "request"
           /\ k \in DOMAIN tasks'
           /\ tasks'[k] # tasks[k]
           /\ tasks'[k].reply = Failure("error"))
          => /\ IF tasks[k].attempt + 1 < MaxAttempts
                THEN /\ tasks'[k].pc = "request"
                     /\ tasks'[k].attempt = tasks[k].attempt + 1
                     /\ returned' = returned
                ELSE /\ tasks'[k].pc = "done"
                     /\ tasks'[k].attempt = tasks[k].attempt
                     /\ tasks'[k].result = EmptyPair
                     /\ returned'[tasks[k].row] = EmptyPair
             /\ heap' = heap
             /\ files' = files
             /\ pc' = pc
             /\ \A j \in 1..Len(tasks) : j # k => tasks'[j] = tasks[j]
    ]_vars

\* the third request of a task is in flight after its second ended with an
\* exception, while another task of the batch has returned a pair of hints
C13_Witness ==
  \E k, j \in 1..Len(tasks) :
    /\ k # j
    /\ tasks[k].pc = "request"
    /\ tasks[k].attempt = MaxAttempts - 1
    /\ tasks[k].reply = Failure("error")
    /\ tasks[j].pc = "done"
    /\ tasks[j].result # EmptyPair

\* the reply kinds without a usable JSON object: no match of either regex,
\* or a match that json.loads refuses
Unparsable == {Failure("no_json"), Failure("invalid_json")}

\* C14: a step in which the request of task k ends with a reply without a
\* usable JSON object stores nothing and uses up one attempt, as a rejected
\* pair does: below the limit the task is the same but for the attempt count
\* and its next request is in flight, at the limit the call returns the
\* empty pair
C14_UnparsableConsumesOneAttempt ==
  [][\A k \in 1..Len(tasks) :
       (/\ tasks[k].pc = "request"
        /\ k \in DOMAIN tasks'
        /\ tasks'[k] # tasks[k]
        /\ tasks'[k].reply \in Unparsable)
       => /\ heap' = heap
          /\ files' = files
          /\ IF tasks[k].attempt + 1 < MaxAttempts
             THEN /\ tasks'[k] = [tasks[k] EXCEPT !.attempt = @ + 1,
                                                  !.reply = tasks'[k].reply]
                  /\ returned' = returned
             ELSE /\ tasks'[k].pc = "done"
                  /\ tasks'[k].attempt = tasks[k].attempt
                  /\ tasks'[k].result = EmptyPair
                  /\ returned'[tasks[k].row] = EmptyPair
    ]_vars

\* one call returned the empty pair when its third reply had no JSON object;
\* another has a request in flight after a reply that did not parse
C14_Witness ==
  /\ \E k \in 1..Len(tasks) :
       /\ tasks[k].pc = "done"
       /\ tasks[k].attempt = MaxAttempts - 1
       /\ tasks[k].result = EmptyPair
       /\ tasks[k].reply = Failure("no_json")
  /\ \E j \in 1..Len(tasks) :
       /\ tasks[j].pc = "request"
       /\ tasks[j].attempt >= 1
       /\ tasks[j].reply = Failure("invalid_json")

\* neither the environment of the process nor the file .env holds a value
\* under one of the names
NoCredential ==
  /\ \A n \in CredentialNames : Falsy(environ[n])
  /\ \A n \in CredentialNames : Falsy(dotenv.lines[n])

\* C15: a process of either script started without a credential in the
\* environment and in .env has left at once: it has read no row, written no
\* backup and no output and sent no request, and the step that started it
\* left every file as it was
C15_NoCredentialNoProcessing ==
  [][(program' # "none" /\ NoCredential')
       => /\ pc' = "exited"
          /\ read_rows' = <<>>
          /\ backup_path' = ""
          /\ out_writes' = 0
          /\ ~issued'
          /\ files' = files
          /\ writes' = writes
    ]_vars

\* polish_questions_web has refused to start: .env is there, with an empty
\* OPENAI_API_KEY line, and the environment has no value either
C15_Witness ==
  /\ pc = "exited"
  /\ program = "polish_questions_web"
  /\ NoCredential
  /\ dotenv.exists
  /\ dotenv.lines["OPENAI_API_KEY"] = ""

\* the text holds the character c
Holds(t, c) == \E i \in 1..Len(t) : t[i] = c

\* C16: no hint generate_hints returns, and so no hint the run stores in a
\* row or writes to the output in place of the hint read, holds a comma; a
\* comma of the reply outside the links stripped is a semicolon in the hint
C16_NoCommaInHints ==
  /\ \A r \in DOMAIN returned :
       ~Holds(returned[r].tipp1, ",") /\ ~Holds(returned[r].tipp2, ",")
  /\ \A k \in 1..Len(tasks) :
       ~Holds(tasks[k].result.tipp1, ",") /\ ~Holds(tasks[k].result.tipp2, ",")
  /\ \A r \in DOMAIN heap :
       /\ heap[r].tipp1 # read_rows[r].tipp1 => ~Holds(heap[r].tipp1, ",")
       /\ heap[r].tipp2 # read_rows[r].tipp2 => ~Holds(heap[r].tipp2, ",")
  /\ (saved > 0 /\ args.output \in DOMAIN files) =>
       \A r \in 1..Len(read_rows) :
         /\ files[args.output][r].tipp1 # read_rows[r].tipp1
              => ~Holds(files[args.output][r].tipp1, ",")
         /\ files[args.output][r].tipp2 # read_rows[r].tipp2
              => ~Holds(files[args.output][r].tipp2, ",")

\* a reply whose second hint has a comma was accepted and saved: the hint
\* in the output has a semicolon and no comma
C16_Witness ==
  \E k \in 1..Len(tasks) :
    /\ tasks[k].pc = "done"
    /\ Holds(tasks[k].reply.tipp2, ",")
    /\ Holds(tasks[k].result.tipp2, ";")
    /\ ~Holds(tasks[k].result.tipp2, ",")
    /\ heap[tasks[k].row].tipp2 = tasks[k].result.tipp2

\* the answer is empty, is blank, or its leading token parses to zero
AnswerEmptyOrZero(answer) ==
  \/ answer = <<>>
  \/ \A i \in 1..Len(answer) : answer[i] \in Whitespace
  \/ /\ ~SplitRaises(answer)
     /\ AnsClean(answer) # <<>>
     /\ ~FloatRaises(AnsClean(answer))
     /\ IsZero(AnsVal(answer))

\* C18: for an answer that is empty, blank or zero the validator returns a
\* verdict (it does not raise), and it rejects exactly when the hint matches
\* an entry of the pattern table, whatever numerals the hint holds
C18_EmptyOrZeroAnswerSkipsProximity ==
  (vResult # "none" /\ AnswerEmptyOrZero(vAnswer))
  => /\ vResult \in {"accept", "reject"}
     /\ vResult = "reject" <=> MatchesBadPattern(vHint)

\* the text has the numeral written with the digits ds
References(t, ds) ==
  \E i \in 1..Len(NumeralsFrom(t, 1)) :
    NumeralsFrom(t, 1)[i] = Decimal(ds, <<>>)

\* C19: for the row with id 7 and answer 828, whose first reply has a hint
\* with 679 and a hint with 330: the pair of the first attempt is never the
\* one returned, and a pair returned, stored or written for the row has the
\* hint with 330 and no hint with 679
C19_ScenarioKeepsFarHint ==
  \A r \in 1..Len(read_rows) :
    read_rows[r].id = 7 =>
      /\ \A k \in 1..Len(tasks) :
           (tasks[k].row = r /\ tasks[k].pc = "done"
            /\ tasks[k].result # EmptyPair)
           => tasks[k].attempt >= 1
      /\ r \in Accepted =>
           /\ \E h \in {returned[r].tipp1, returned[r].tipp2} :
                References(h, <<"3", "3", "0">>)
           /\ \A h \in {returned[r].tipp1, returned[r].tipp2} :
                ~References(h, <<"6", "7", "9">>)
      /\ \A path \in DOMAIN files :
           \A h \in {files[path][r].tipp1, files[path][r].tipp2} :
             ~References(h, <<"6", "7", "9">>)

\* C20: a hint that matches no entry of the pattern table and whose numerals
\* are all outside 0.75 * a .. 1.25 * a, a the nonzero answer, is accepted
C20_FarNumeralsAccepted ==
  (/\ vResult # "none"
   /\ ~MatchesBadPattern(vHint)
   /\ AnswerIsNonzeroNumber(vAnswer)
   /\ ~NumeralNearAnswer(vHint, vAnswer))
  => vResult = "accept"

\* C21 as stated: the validator itself rejects every hint shorter than
\* MinHintLen characters, here the hints of the replies a request in flight
\* can get, validated against the answer of its row
C21_ValidatorRejectsShort ==
  \A k \in InFlight :
    \A reply \in ShortReplies :
      \A h \in {Pair[reply].tipp1, Pair[reply].tipp2} :
        TextLen(h) < MinHintLen => hint_is_bad(h, heap[tasks[k].row].loesung)

\* C21 (amended): hint_is_bad has no length test; generate_hints rejects the
\* attempt when a cleaned hint is shorter than MinHintLen characters, so no
\* hint returned, stored in a row or written in place of the hint read is
\* shorter than MinHintLen
C21_ShortHintsNeverStored ==
  /\ \A r \in Accepted :
       /\ TextLen(returned[r].tipp1) >= MinHintLen
       /\ TextLen(returned[r].tipp2) >= MinHintLen
  /\ \A r \in DOMAIN heap :
       /\ heap[r].tipp1 # read_rows[r].tipp1
            => TextLen(heap[r].tipp1) >= MinHintLen
       /\ heap[r].tipp2 # read_rows[r].tipp2
            => TextLen(heap[r].tipp2) >= MinHintLen
  /\ (saved > 0 /\ args.output \in DOMAIN files) =>
       \A r \in 1..Len(read_rows) :
         /\ files[args.output][r].tipp1 # read_rows[r].tipp1
              => TextLen(files[args.output][r].tipp1) >= MinHintLen
         /\ files[args.output][r].tipp2 # read_rows[r].tipp2
              => TextLen(files[args.output][r].tipp2) >= MinHintLen

\* a call whose first attempt got the pair with the short hint (the only
\* reply rejected here) returned the long pair on a later attempt, stored in
\* its row
C21_Witness ==
  \E k \in 1..Len(tasks) :
    /\ tasks[k].pc = "done"
    /\ tasks[k].attempt >= 1
    /\ tasks[k].result # EmptyPair
    /\ ~hint_is_bad(Short, heap[tasks[k].row].loesung)
    /\ heap[tasks[k].row].tipp2 = tasks[k].result.tipp2
    /\ TextLen(heap[tasks[k].row].tipp2) >= MinHintLen

\* the full list as it was after the merge before (as read, before the first)
ListBefore == IF saved = 0 THEN read_rows ELSE files[args.output]

\* C22: a merge keeps the number and the order of the rows of the full list,
\* every row keeps its id and its non-hint fields, and a row that differs
\* from before has the id of a row of the batch and differs in tipp1 or tipp2
\* only
C22_MergePreservesRows ==
  [][saved' = saved + 1 =>
       LET before == ListBefore
           after == RowsOf(all_rows', heap')
           batch_ids == {heap[tasks[k].row].id : k \in 1..Len(tasks)}
       IN /\ Len(after) = Len(before)
          /\ Len(after) = Len(read_rows)
          /\ \A i \in 1..Len(after) :
               /\ after[i].id = before[i].id
               /\ after[i].frage = before[i].frage
               /\ after[i].loesung = before[i].loesung
               /\ after[i].id = read_rows[i].id
               /\ after[i] # before[i] => after[i].id \in batch_ids
          /\ files'[args.output] = after]_vars

\* the second batch of a run has been merged: one of its rows has new hints,
\* and so has a row of the first batch
C22_Witness ==
  /\ saved = 2
  /\ pc = "loop"
  /\ \E i \in 1..Len(all_rows) :
       /\ all_rows[i] \in Accepted
       /\ BatchNumberOf(all_rows[i]) = 1
       /\ heap[all_rows[i]].id = read_rows[i].id
       /\ heap[all_rows[i]] # read_rows[i]
  /\ \E i \in 1..Len(all_rows) :
       /\ BatchNumberOf(all_rows[i]) = 0
       /\ heap[all_rows[i]] # read_rows[i]

\* the target rows in the batches 0 .. b-1
RowsInBatches(b) ==
  {i \in 1..Len(target_rows) : (i - 1) \div args.batch_size < b}

\* C23: the line printed after a batch gives processed/total with total the
\* number of target rows and processed the number of target rows in the
\* batches completed so far; processed grows with every batch, never exceeds
\* total and equals total after the last batch
C23_ProgressCountsCompletedRows ==
  [][saved' = saved + 1 =>
       LET report == progress_bar(processed_count', Len(target_rows'))
       IN /\ report.total = Len(target_rows)
          /\ report.current = Cardinality(RowsInBatches(batch_idx + 1))
          /\ processed_count = Cardinality(RowsInBatches(batch_idx))
          /\ report.current > processed_count
          /\ report.current <= report.total
          /\ batch_idx + 1 = TotalBatches => report.current = report.total]_vars

\* three target rows in batches of two: the run is over, the last batch had
\* one row, and the count is 3 of 3
C23_Witness ==
  /\ pc = "done"
  /\ args.batch_size = 2
  /\ Len(target_rows) = 3
  /\ saved = 2
  /\ processed_count = Len(target_rows)

\* C24 as stated: in a step during which a request of the batch stays in
\* flight no record reachable from the full list is modified
C24_NoWriteWhileInFlight ==
  [][(InFlight \cap InFlight' # {})
       => RowsOf(all_rows', heap') = RowsOf(all_rows, heap)]_vars

\* C24 (amended): the slots of the full list are assigned only while no
\* request is in flight (at the merge, when the rows are read), unless the
\* process dies; a record is modified only by the process_one call of its
\* own row, at the moment that call's request ends, and no other record is
\* modified in that step, whether or not other requests are in flight
C24_OneWriterPerRecord ==
  [][/\ (all_rows' # all_rows /\ pc' # "crashed") => InFlight = {}
     /\ (pc = "gather" /\ pc' = "gather") =>
          \A r \in DOMAIN heap :
            heap'[r] # heap[r] =>
              \E k \in InFlight :
                /\ tasks[k].row = r
                /\ tasks'[k].pc = "done"
                /\ \A j \in 1..Len(tasks) : j # k => tasks'[j] = tasks[j]
                /\ \A o \in DOMAIN heap : o # r => heap'[o] = heap[o]]_vars

\* the call of one row of the batch has stored new hints in its record while
\* the request of another row of the batch is still in flight
C24_Witness ==
  /\ pc = "gather"
  /\ \E k \in 1..Len(tasks) :
       /\ tasks[k].pc = "done"
       /\ tasks[k].result # EmptyPair
       /\ heap[tasks[k].row] # read_rows[tasks[k].row]
       /\ \E i \in 1..Len(all_rows) : all_rows[i] = tasks[k].row
  /\ InFlight # {}

\* C25: with every request ending, for every --concurrency the command line
\* accepts: a call waiting for a slot gets one, every call of a batch ends
\* (with a pair or with its attempts used up), every batch is saved and the
\* run reaches "DONE!"
C25_RunTerminates ==
  /\ \A k \in 1..NumRows :
       (k <= Len(tasks) /\ tasks[k].pc = "waiting")
         ~> (k <= Len(tasks) /\ tasks[k].pc = "request")
  /\ \A b \in 0..NumRows - 1 :
       (pc = "gather" /\ batch_idx = b)
         ~> (saved = b + 1 /\ \A i \in RowsInBatches(b + 1) :
                                heap[target_rows[i]].frage # ""
                                => target_rows[i] \in DOMAIN returned)
  /\ (pc = "backup") ~> (pc = "done" /\ saved = TotalBatches)

\* the same for the limits from 1 on
C25_RunTerminatesWithSlots ==
  /\ \A k \in 1..NumRows :
       (args.concurrency >= 1 /\ k <= Len(tasks) /\ tasks[k].pc = "waiting")
         ~> (k <= Len(tasks) /\ tasks[k].pc = "request")
  /\ \A b \in 0..NumRows - 1 :
       (pc = "gather" /\ batch_idx = b /\ args.concurrency >= 1)
         ~> (saved = b + 1 /\ \A i \in RowsInBatches(b + 1) :
                                heap[target_rows[i]].frage # ""
                                => target_rows[i] \in DOMAIN returned)
  /\ (pc = "backup" /\ args.concurrency >= 1)
       ~> (pc = "done" /\ saved = TotalBatches)

\* the rows read whose id is outside the range selected on the command line
\* (--end not given: no upper end)
OutsideRange ==
  {r \in 1..Len(read_rows) :
     ~(/\ args.start <= read_rows[r].id
       /\ args.end # None => read_rows[r].id <= args.end[1])}

\* no call for row r waits, has a request in flight or has returned, and the
\* output written holds the row as read
Untouched(r) ==
  /\ r \notin DOMAIN returned
  /\ \A k \in 1..Len(tasks) :
       tasks[k].row = r => tasks[k].pc \notin {"waiting", "request"}
  /\ pc # "idle" => heap[r] = read_rows[r]
  /\ (saved > 0 /\ args.output \in DOMAIN files) =>
       files[args.output][r] = read_rows[r]

\* C26: a row whose id is outside [start, end] is never sent to the service
\* and is the same as in the input in every output written
C26_OutsideRangeUntouched == \A r \in OutsideRange : Untouched(r)

\* the same for every --end but 0
C26_OutsideRangeUntouchedEndNot0 ==
  args.end # <<0>> => \A r \in OutsideRange : Untouched(r)

\* --start 2 --end 2 on three rows: rows 1 and 3 are outside, row 2 has new
\* hints in the output written
C26_Witness ==
  /\ args.start = 2 /\ args.end = <<2>>
  /\ OutsideRange = {1, 3}
  /\ saved = 1
  /\ files[args.output][2] # read_rows[2]
  /\ files[args.output][1] = read_rows[1]
  /\ files[args.output][3] = read_rows[3]

\* C29: fetch_answers sends no request for a row with a non-blank answer or
\* without question and leaves such a row unchanged; a row changes only
\* after its own request, in loesung only, to the stripped reply or to ""
\* when the request failed; a failed request stops no other row, and the
\* output written holds the rows so
C29_ExistingAnswerKept ==
  program = "fetch_answers" /\ pc \in {"fetch", "done"} =>
    /\ \A k \in 1..Len(tasks) :
         LET r == tasks[k].row
         IN /\ ~NeedsAnswer(read_rows[r]) =>
                 ~tasks[k].sent /\ heap[r] = read_rows[r]
            /\ (tasks[k].pc # "done" \/ ~tasks[k].sent) => heap[r] = read_rows[r]
            /\ (tasks[k].pc = "done" /\ tasks[k].sent) =>
                 /\ heap[r] = [read_rows[r] EXCEPT !.loesung = heap[r].loesung]
                 /\ heap[r].loesung \in
                      {IF reply.kind = "error" THEN <<>> ELSE Strip(reply.content) :
                         reply \in FetchReplies}
                 /\ tasks[k].failed => heap[r].loesung = <<>>
    /\ pc = "done" =>
         /\ \A k \in 1..Len(tasks) :
              NeedsAnswer(read_rows[tasks[k].row]) => tasks[k].sent
         /\ files[args.output] = RowsOf(all_rows, heap)

\* the run is over: one request failed and left "", another row got its
\* answer, the row that had an answer was not sent and is written as read
C29_Witness ==
  /\ program = "fetch_answers" /\ pc = "done"
  /\ \E k \in 1..Len(tasks) : tasks[k].sent /\ tasks[k].failed
  /\ \E k \in 1..Len(tasks) :
       /\ tasks[k].sent /\ ~tasks[k].failed
       /\ files[args.output][tasks[k].row].loesung = <<"1", "0", "0">>
  /\ \E k \in 1..Len(tasks) :
       /\ ~tasks[k].sent
       /\ read_rows[tasks[k].row].loesung = Answer100
       /\ files[args.output][tasks[k].row] = read_rows[tasks[k].row]

\* C27: whatever events came, the second hint is revealed only if the first
\* hint of the loaded question is, and the solution only if the second is
C27_RevealedInSequence ==
  /\ "revealed" \in classList["hint2"] => "revealed" \in classList["hint1"]
  /\ "revealed" \in classList["sol"] => "revealed" \in classList["hint2"]

\* C28: a timeout reveals a card only if some press on the card's button was
\* not released before HOLD_TIME had passed since it began
C28_RevealOnlyByHold ==
  \A c \in reveals :
    \E p \in 1..Len(presses) :
      presses[p].target = c /\ presses[p].ended # "early"

\* C30: n selected cards give ceil(n/5) pages; the card at index i is in
\* row i mod 5 of page i div 5, so the cards are in input order; no page has
\* more than 5 cards and every row drawn holds one of the n cards, so every
\* card is on exactly one page
C30_PaginationLossless ==
  card_pc = "done" =>
    LET n == Len(cards)
    IN /\ Len(generated_pages) = (IF n % 5 = 0 THEN n \div 5 ELSE n \div 5 + 1)
       /\ total_pages = Len(generated_pages)
       /\ \A i \in 0..n - 1 :
            /\ (i \div 5) + 1 <= Len(generated_pages)
            /\ (i % 5) + 1 <= Len(generated_pages[(i \div 5) + 1])
            /\ generated_pages[(i \div 5) + 1][(i % 5) + 1] = cards[i + 1]
       /\ \A k \in 1..Len(generated_pages) :
            /\ Len(generated_pages[k]) \in 1..5
            /\ \A j \in 1..Len(generated_pages[k]) : 5 * (k - 1) + j <= n

\* all rows of the input selected: two full pages and a page with the last
\* card
C30_Witness ==
  /\ card_pc = "done"
  /\ Len(cards) = MaxCards
  /\ Len(generated_pages) = Ceil(MaxCards, 5)
  /\ generated_pages[Len(generated_pages)][((MaxCards - 1) % 5) + 1] = MaxCards

====
